---------------------------- MODULE Spec2Model ----------------------------
(***************************************************************************)
(* A model of the lottery bot's zodiac prediction engine                   *)
(* (src/prediction_engine_ultimate.py) and of the parts of src/bot.py it   *)
(* reads from (the draw-history store, the prediction-record store, the    *)
(* process-wide random generator).                                         *)
(*                                                                         *)
(* Numbers.  Python floats are modelled in fixed point: a dimension score  *)
(* is an integer count of 1/SCALE points (100.0 is 100 * SCALE) and a      *)
(* weighted contribution or a total score is an integer count of           *)
(* 1/(100 * SCALE) points, the weights being integers in hundredths.       *)
(* Divisions round toward minus infinity.                                  *)
(*                                                                         *)
(* Categories.  The twelve zodiac labels are written in English:           *)
(* rat 鼠, ox 牛, tiger 虎, rabbit 兔, dragon 龙, snake 蛇, horse 马,       *)
(* goat 羊, monkey 猴, rooster 鸡, dog 狗, pig 猪; the four traditional     *)
(* spellings 龍 馬 雞 豬 are "dragon_trad", "horse_trad", "rooster_trad",  *)
(* "pig_trad".                                                             *)
(***************************************************************************)
EXTENDS Integers, Sequences, FiniteSets, TLC

VARIABLES
    history,          \* lottery_history rows, newest first (ORDER BY expect DESC)
    records,          \* prediction_records rows, newest first
    rng,              \* the process-wide generator of module random
    NUMPY_AVAILABLE,  \* whether "import numpy" succeeded when the module loaded
    calls,            \* the calls made so far, oldest first: each with its
                      \* arguments, what it read and what it returned or raised
    last_expect,      \* LotteryBot.last_expect: the period id of the last
                      \* result seen, <<>> for None
    pending           \* the period ids of the perform_zodiac_prediction
                      \* coroutines suspended in their awaits

vars == <<history, records, rng, NUMPY_AVAILABLE, calls, last_expect, pending>>

\* the engine on its own: no bot polls the API or serves a request
NoBot == last_expect = <<>> /\ pending = <<>>

-----------------------------------------------------------------------------
(* Fixed point and small helpers *)

SCALE == 10 * 100

Min(a, b) == IF a <= b THEN a ELSE b

Max(a, b) == IF a >= b THEN a ELSE b

Abs(a) == IF a >= 0 THEN a ELSE 0 - a

\* s[:n] of a Python list
Take(s, n) == SubSeq(s, 1, Min(n, Len(s)))

\* s.count(x)
Count(s, x) == Cardinality({i \in 1..Len(s) : s[i] = x})

\* sum(1 for t in s if P(t))
CountIf(s, P(_)) == Cardinality({i \in 1..Len(s) : P(s[i])})

RECURSIVE SumSeq(_)
SumSeq(s) == IF s = <<>> THEN 0 ELSE Head(s) + SumSeq(Tail(s))

\* the largest r with r * r <= n, by bisection on lo..hi
RECURSIVE ISqrtIn(_, _, _)
ISqrtIn(n, lo, hi) ==
    IF lo >= hi THEN lo
    ELSE LET mid == (lo + hi + 1) \div 2
         IN  IF mid * mid <= n THEN ISqrtIn(n, mid, hi) ELSE ISqrtIn(n, lo, mid - 1)

ISqrt(n) == ISqrtIn(n, 0, 46340)

\* a Python list built by a comprehension, held as a tuple
List(f) == f \o <<>>

\* A call returns a value or raises
Ok(v) == [exc |-> "none", val |-> v]

Raise(e) == [exc |-> e, val |-> 0]

-----------------------------------------------------------------------------
(* Module-level tables of prediction_engine_ultimate.py *)

ALL_ZODIACS ==
    <<"rat", "ox", "tiger", "rabbit", "dragon", "snake",
      "horse", "goat", "monkey", "rooster", "dog", "pig">>

ZodiacSet == {ALL_ZODIACS[i] : i \in 1..Len(ALL_ZODIACS)}

ZODIAC_NUMBERS ==
    [rat     |-> <<6, 18, 30, 42>>,
     ox      |-> <<5, 17, 29, 41>>,
     tiger   |-> <<4, 16, 28, 40>>,
     rabbit  |-> <<3, 15, 27, 39>>,
     dragon  |-> <<2, 14, 26, 38>>,
     snake   |-> <<1, 13, 25, 37, 49>>,
     horse   |-> <<12, 24, 36, 48>>,
     goat    |-> <<11, 23, 35, 47>>,
     monkey  |-> <<10, 22, 34, 46>>,
     rooster |-> <<9, 21, 33, 45>>,
     dog     |-> <<8, 20, 32, 44>>,
     pig     |-> <<7, 19, 31, 43>>]

TRADITIONAL_TO_SIMPLIFIED ==
    [dragon_trad |-> "dragon", horse_trad |-> "horse",
     rooster_trad |-> "rooster", pig_trad |-> "pig"]

NUMBER_TO_ZODIAC ==
    [n \in 1..49 |->
        CHOOSE z \in ZodiacSet :
            \E i \in 1..Len(ZODIAC_NUMBERS[z]) : ZODIAC_NUMBERS[z][i] = n]

ZODIAC_LIU_CHONG ==
    [rat |-> "horse", ox |-> "goat", tiger |-> "monkey", rabbit |-> "rooster",
     dragon |-> "dog", snake |-> "pig", horse |-> "rat", goat |-> "ox",
     monkey |-> "tiger", rooster |-> "rabbit", dog |-> "dragon", pig |-> "snake"]

ZODIAC_SAN_HE ==
    [rat |-> {"dragon", "monkey"}, ox |-> {"snake", "rooster"},
     tiger |-> {"horse", "dog"}, rabbit |-> {"goat", "pig"},
     dragon |-> {"rat", "monkey"}, snake |-> {"ox", "rooster"},
     horse |-> {"tiger", "dog"}, goat |-> {"rabbit", "pig"},
     monkey |-> {"rat", "dragon"}, rooster |-> {"ox", "snake"},
     dog |-> {"tiger", "horse"}, pig |-> {"rabbit", "goat"}]

ZODIAC_LIU_HE ==
    [rat |-> "ox", ox |-> "rat", tiger |-> "pig", rabbit |-> "dog",
     dragon |-> "rooster", snake |-> "monkey", horse |-> "goat", goat |-> "horse",
     monkey |-> "snake", rooster |-> "dragon", dog |-> "rabbit", pig |-> "tiger"]

ZODIAC_FIVE_ELEMENTS ==
    [rat |-> "water", ox |-> "earth", tiger |-> "wood", rabbit |-> "wood",
     dragon |-> "earth", snake |-> "fire", horse |-> "fire", goat |-> "earth",
     monkey |-> "metal", rooster |-> "metal", dog |-> "earth", pig |-> "water"]

ELEMENTS_GENERATE ==
    [wood |-> "fire", fire |-> "earth", earth |-> "metal",
     metal |-> "water", water |-> "wood"]

ELEMENTS_RESTRICT ==
    [wood |-> "earth", earth |-> "water", water |-> "fire",
     fire |-> "metal", metal |-> "wood"]

RANDOM_PERTURBATION_RANGE == 15

MONTE_CARLO_ITERATIONS == 100

RED_WAVE_NUMBERS == {1, 2, 7, 8, 12, 13, 18, 19, 23, 24, 29, 30, 34, 35, 40, 45, 46}

get_color_wave(num) ==
    IF num \in RED_WAVE_NUMBERS THEN "red"
    ELSE IF num % 3 = 0 THEN "blue"
    ELSE "green"

\* dict.get(key, default) on one of the tables above
Get(table, key, default) == IF key \in DOMAIN table THEN table[key] ELSE default

normalize_zodiac(zodiac) == Get(TRADITIONAL_TO_SIMPLIFIED, zodiac, zodiac)

\* [normalize_zodiac(h.get('tema_zodiac', '')) for h in history]
ZodiacList(h) == List([i \in 1..Len(h) |-> normalize_zodiac(h[i].tema_zodiac)])

\* [h.get('tema', 0) for h in history]
TemaList(h) == List([i \in 1..Len(h) |-> h[i].tema])

-----------------------------------------------------------------------------
(* The process-wide generator of module random.  Its state is one of       *)
(* RNG_MOD values; seed(a) fixes the state from a, seed() takes it from    *)
(* the operating system's entropy, and every draw advances it.  random()   *)
(* is state / RNG_MOD, a float in [0, 1).                                  *)

RNG_MOD == 2^16

RNG_MULTIPLIER == 25173

RNG_INCREMENT == 13849

\* (x * y) % RNG_MOD without leaving 32 bits
MulMod(x, y) == ((((x \div 256) * y) % 256) * 256 + (x % 256) * y) % RNG_MOD

\* one step of the generator
RngStep(s) == (RNG_MULTIPLIER * s + RNG_INCREMENT) % RNG_MOD

\* RNG_MULTIPLIER^n % RNG_MOD
RECURSIVE PowMod(_)
PowMod(n) ==
    IF n = 0 THEN 1
    ELSE IF n % 2 = 0 THEN LET q == PowMod(n \div 2) IN MulMod(q, q)
    ELSE MulMod(RNG_MULTIPLIER, PowMod(n - 1))

\* (1 + a + ... + a^(n-1)) % RNG_MOD for a = RNG_MULTIPLIER
RECURSIVE GeoMod(_)
GeoMod(n) ==
    IF n = 0 THEN 0
    ELSE IF n % 2 = 0 THEN MulMod(GeoMod(n \div 2), (1 + PowMod(n \div 2)) % RNG_MOD)
    ELSE (1 + MulMod(RNG_MULTIPLIER, GeoMod(n - 1))) % RNG_MOD

\* the most draws one prediction call makes: 12 candidates, each the
\* simulation's draws and one perturbation
MaxDraws == 12 * (MONTE_CARLO_ITERATIONS + 1)

\* n steps at once, n in 1..MaxDraws: s -> JUMP[n].mul * s + JUMP[n].add
JUMP ==
    List([n \in 1..MaxDraws |->
             [mul |-> PowMod(n), add |-> MulMod(RNG_INCREMENT, GeoMod(n))]])

\* the state n draws after state s
StateAfter(s, n) ==
    IF n = 0 THEN s ELSE (MulMod(JUMP[n].mul, s) + JUMP[n].add) % RNG_MOD

\* the generator after n draws
Advance(r, n) == [r EXCEPT !.state = StateAfter(r.state, n)]

\* random.seed(a) with an integer a
Seed(a) == [seeded |-> TRUE, state |-> RngStep(a % RNG_MOD)]

\* random.seed(): the state comes from os.urandom, here the entropy e
Unseed(e) == [seeded |-> FALSE, state |-> RngStep((7919 * e + 1) % RNG_MOD)]

\* one draw: the generator after it; the value drawn is its state
Draw(r) == Advance(r, 1)

\* random.uniform(a, b), a and b in points, the result in 1/(100 * SCALE) points,
\* drawn with the draw that led to generator r
Uniform(r, a, b) == 100 * (a * SCALE + ((b - a) * SCALE * r.state) \div RNG_MOD)

\* random._randbelow(n), drawn with the draw that led to generator r
RandBelow(r, n) == (r.state * n) \div RNG_MOD

\* seq with element i replaced by v
SetAt(seq, i, v) == [seq EXCEPT ![i] = v]

\* a variant of Sample2 that draws with replacement and gets the same pick twice
SampleRepeating(r, population) ==
    LET r1 == Advance(r, 1)
        j1 == ((r1.state * Len(population)) \div RNG_MOD) + 1
    IN  [selected |-> <<population[j1], population[j1]>>, rng |-> Advance(r1, 1)]

\* random.sample(population, 2) for a short population (the pool branch of
\* random.sample): the two picks and the generator left behind
Sample2(r, population) ==
    LET n    == Len(population)
        r1   == Draw(r)
        j1   == RandBelow(r1, n) + 1
        pool == SetAt(population, j1, population[n])
        r2   == Draw(r1)
        j2   == RandBelow(r2, n - 1) + 1
    IN  [selected |-> <<population[j1], pool[j2]>>, rng |-> r2]

-----------------------------------------------------------------------------
(* Basic statistics *)

\* zodiac_list.index(zodiac), 0-based; Len(zl) when absent (the ValueError branch)
IndexOrLen(zl, zodiac) ==
    IF \E i \in 1..Len(zl) : zl[i] = zodiac
    THEN (CHOOSE i \in 1..Len(zl) :
             zl[i] = zodiac /\ \A j \in 1..(i - 1) : zl[j] # zodiac) - 1
    ELSE Len(zl)

score_long_term_missing(h, zodiac, period) ==
    LET missing_periods == IndexOrLen(ZodiacList(h), zodiac)
    IN  IF period = 0 THEN Raise("ZeroDivisionError")
        ELSE Ok(Min(100 * SCALE, (missing_periods * 12 * 50 * SCALE) \div period))

\* a variant of score_short_term_hot without the max(0, ...) clamp
short_term_hot_unclamped(h, zodiac) ==
    Ok(100 * SCALE - Count(ZodiacList(Take(h, 20)), zodiac) * 15 * SCALE)

score_short_term_hot(h, zodiac) ==
    LET count == Count(ZodiacList(Take(h, 20)), zodiac)
    IN  IF count = 0 THEN Ok(100 * SCALE)
        ELSE Ok(Max(0, 100 * SCALE - count * 15 * SCALE))

score_cycle_pattern(h, zodiac, period) ==
    LET count == Count(ZodiacList(h), zodiac)
    IN  IF period = 0 THEN Raise("ZeroDivisionError")
        ELSE IF 12 * count < period
        THEN Ok(Min(100 * SCALE, ((period - 12 * count) * 100 * SCALE) \div period))
        ELSE Ok(Max(0, 50 * SCALE - ((12 * count - period) * 25 * SCALE) \div period))

\* a variant of score_consecutive_penalty that looks at the older draws first
consecutive_penalty_oldest_first(h, zodiac) ==
    LET recent_5 == ZodiacList(Take(h, 5))
        In(lo, hi) == \E i \in lo..Min(hi, Len(recent_5)) : recent_5[i] = zodiac
    IN  IF In(4, 5) THEN Ok(60 * SCALE)
        ELSE IF In(2, 3) THEN Ok(30 * SCALE)
        ELSE IF In(1, 1) THEN Ok(0)
        ELSE Ok(100 * SCALE)

score_consecutive_penalty(h, zodiac) ==
    LET recent_5 == ZodiacList(Take(h, 5))
        In(lo, hi) == \E i \in lo..Min(hi, Len(recent_5)) : recent_5[i] = zodiac
    IN  IF In(1, 1) THEN Ok(0)
        ELSE IF In(2, 3) THEN Ok(30 * SCALE)
        ELSE IF In(4, 5) THEN Ok(60 * SCALE)
        ELSE Ok(100 * SCALE)

-----------------------------------------------------------------------------
(* Advanced mathematics *)

\* a variant of score_markov_chain without the guard on len(history) < 2: it
\* reads zodiac_list[1] of a window of one draw
markov_chain_unguarded(h, zodiac) ==
    IF Len(h) < 2 THEN Raise("IndexError") ELSE Ok(50 * SCALE)

score_markov_chain(h, zodiac) ==
    IF Len(h) < 2 THEN Ok(50 * SCALE)
    ELSE
      LET zl == ZodiacList(h)
          n  == Len(zl)
          last_zodiac == zl[1]
          from_last == {i \in 1..(n - 1) : zl[i] = last_zodiac}
          total_transitions == Cardinality(from_last)
          transition_count  == Cardinality({i \in from_last : zl[i + 1] = zodiac})
          from_two == {i \in 1..(n - 2) : zl[i] = zl[1] /\ zl[i + 1] = zl[2]}
          second_order_total == Cardinality(from_two)
          second_order_count == Cardinality({i \in from_two : zl[i + 2] = zodiac})
      IN  IF total_transitions = 0
          THEN IF second_order_total > 0
               THEN Ok((second_order_count * 100 * SCALE) \div second_order_total)
               ELSE Ok(50 * SCALE)
          ELSE Ok((transition_count * 100 * SCALE) \div total_transitions)

\* the positions (0-based) at which zodiac occurs in zl, ascending
RECURSIVE AppearancesFrom(_, _, _)
AppearancesFrom(zl, zodiac, i) ==
    IF i > Len(zl) THEN <<>>
    ELSE IF zl[i] = zodiac THEN <<i - 1>> \o AppearancesFrom(zl, zodiac, i + 1)
    ELSE AppearancesFrom(zl, zodiac, i + 1)

fallback_periodic_score(h, zodiac) ==
    LET appearances == AppearancesFrom(ZodiacList(Take(h, 50)), zodiac, 1)
        n     == Len(appearances) - 1
        gaps  == List([i \in 1..n |-> appearances[i + 1] - appearances[i]])
        sum   == SumSeq(gaps)
        sumsq == SumSeq([i \in 1..n |-> gaps[i] * gaps[i]])
        \* variance = sum((g - avg)^2) / n = (n * sumsq - sum^2) / n^2
        variance == ((n * sumsq - sum * sum) * SCALE) \div (n * n)
    IN  IF Len(appearances) < 2 THEN Ok(50 * SCALE)
        ELSE Ok(Max(0, 100 * SCALE - variance))

\* 2 * pi, in 1/10^4
TWO_PI == 62832

\* cos(2 * pi * a / b) for an angle of at most a quarter turn, in 1/10^4, by the
\* Taylor series to the tenth power in Horner form
CosQuarter(a, b) ==
    LET T  == 10^4
        x  == (TWO_PI * a) \div b
        x2 == (x * x) \div T
        h5 == T - x2 \div 90
        h4 == T - ((x2 * h5) \div T) \div 56
        h3 == T - ((x2 * h4) \div T) \div 30
        h2 == T - ((x2 * h3) \div T) \div 12
    IN  T - ((x2 * h2) \div T) \div 2

\* cos(2 * pi * a / b) for 0 <= a < b, in 1/10^4
CosTurn(a, b) ==
    LET a1 == Min(a, b - a)
    IN  IF 4 * a1 <= b THEN CosQuarter(a1, b)
        ELSE 0 - CosQuarter(b - 2 * a1, 2 * b)

\* sin(2 * pi * a / b) = cos(2 * pi * (a / b - 1 / 4)), in 1/10^4
SinTurn(a, b) == CosTurn((4 * a - b) % (4 * b), 4 * b)

\* x / 10 rounded to the nearest integer
Tenth(x) == (x + 5) \div 10

\* the longest signal the transform is taken of: the longest window fetched
MaxSignal == 300

\* TURN[N][j + 1]: cos and sin of 2 * pi * j / N, in 1/SCALE
TURN ==
    List([N \in 1..MaxSignal |->
        List([j \in 1..N |-> [cos |-> Tenth(CosTurn(j - 1, N)),
                              sin |-> Tenth(SinTurn(j - 1, N))]])])

\* np.abs of re + im * i, all in 1/SCALE; large parts are squared at a sixteenth
\* of their size, to stay within 32 bits
Magnitude(re, im) ==
    IF Abs(re) < 32000 /\ Abs(im) < 32000 THEN ISqrt(re * re + im * im)
    ELSE 16 * ISqrt((re \div 16) * (re \div 16) + (im \div 16) * (im \div 16))

\* |sum over the appearances n of exp(-2 * pi * i * k * n / N)|, in 1/SCALE:
\* the magnitude of bin k of np.fft.fft(signal)
FftMagnitude(appearances, k, N) ==
    LET m  == Len(appearances)
        re == SumSeq([j \in 1..m |-> TURN[N][((k * appearances[j]) % N) + 1].cos])
        im == 0 - SumSeq([j \in 1..m |-> TURN[N][((k * appearances[j]) % N) + 1].sin])
    IN  Magnitude(re, im)

\* max(s) of a non-empty sequence of integers
RECURSIVE MaxSeq(_)
MaxSeq(s) == IF Len(s) = 1 THEN s[1] ELSE Max(s[1], MaxSeq(Tail(s)))

score_fourier_analysis(h, zodiac, numpy) ==
    IF ~numpy \/ Len(h) < 30 THEN fallback_periodic_score(h, zodiac)
    ELSE
      LET N == Len(h)
          appearances == AppearancesFrom(ZodiacList(h), zodiac, 1)
          \* np.abs(fft_result[1:len(signal)//2])
          magnitudes ==
              List([k \in 1..(N \div 2 - 1) |-> FftMagnitude(appearances, k, N)])
      IN  IF Len(magnitudes) = 0 THEN Ok(50 * SCALE)
          ELSE Ok(Min(100 * SCALE, (MaxSeq(magnitudes) * 300) \div N))

\* (zodiac, big, odd) of one history row
BayesState(row) == <<normalize_zodiac(row.tema_zodiac), row.tema > 24, row.tema % 2 = 1>>

score_bayesian_probability(h, zodiac) ==
    IF Len(h) < 1 THEN Ok(50 * SCALE)
    ELSE
      LET similar == {i \in 1..(Len(h) - 1) : BayesState(h[i]) = BayesState(h[1])}
          total_similar  == Cardinality(similar)
          matching_count ==
              Cardinality({i \in similar : normalize_zodiac(h[i + 1].tema_zodiac) = zodiac})
      IN  IF total_similar = 0 THEN Ok(50 * SCALE)
          ELSE Ok((matching_count * 100 * SCALE) \div total_similar)

-----------------------------------------------------------------------------
(* Number properties *)

\* x in a Python list written as a sequence
InSeq(x, s) == \E i \in 1..Len(s) : s[i] = x

score_number_hot_cold(h, zodiac) ==
    IF zodiac \notin DOMAIN ZODIAC_NUMBERS THEN Raise("KeyError")
    ELSE
      LET tema_list   == TemaList(Take(h, 50))
          zodiac_nums == ZODIAC_NUMBERS[zodiac]
          count       == CountIf(tema_list, LAMBDA t : InSeq(t, zodiac_nums))
          \* expected = len(tema_list) * len(zodiac_nums) / 49
          expected49  == Len(tema_list) * Len(zodiac_nums)
      IN  IF 49 * count < expected49
          THEN Ok(Min(100 * SCALE,
                      ((expected49 - 49 * count) * 100 * SCALE) \div expected49))
          ELSE IF expected49 = 0 THEN Raise("ZeroDivisionError")
          ELSE Ok(Max(0, 50 * SCALE
                         - ((49 * count - expected49) * 30 * SCALE) \div expected49))

score_tail_trend(h, zodiac) ==
    IF zodiac \notin DOMAIN ZODIAC_NUMBERS THEN Raise("KeyError")
    ELSE
      LET recent_20 == TemaList(Take(h, 20))
          nums == ZODIAC_NUMBERS[zodiac]
          zodiac_tails == {nums[i] % 10 : i \in 1..Len(nums)}
          tail_score(tail) ==
              Max(0, 10 - CountIf(recent_20, LAMBDA t : t % 10 = tail) * 2)
          tails == [tail \in 0..9 |-> IF tail \in zodiac_tails THEN tail_score(tail) ELSE 0]
          total_score == SumSeq([i \in 1..10 |-> tails[i - 1]])
      IN  Ok(Min(100 * SCALE, (total_score * 10 * SCALE) \div Cardinality(zodiac_tails)))

score_big_small(h, zodiac) ==
    LET recent_20   == TemaList(Take(h, 20))
        big_count   == CountIf(recent_20, LAMBDA t : t > 24)
        small_count == 20 - big_count
    IN  IF zodiac \notin DOMAIN ZODIAC_NUMBERS THEN Raise("KeyError")
        ELSE
          LET zodiac_nums  == ZODIAC_NUMBERS[zodiac]
              zodiac_big   == CountIf(zodiac_nums, LAMBDA n : n > 24)
              zodiac_small == Len(zodiac_nums) - zodiac_big
          IN  IF big_count > small_count /\ zodiac_small > zodiac_big THEN Ok(80 * SCALE)
              ELSE IF small_count > big_count /\ zodiac_big > zodiac_small
              THEN Ok(80 * SCALE)
              ELSE Ok(50 * SCALE)

score_odd_even(h, zodiac) ==
    LET recent_20  == TemaList(Take(h, 20))
        odd_count  == CountIf(recent_20, LAMBDA t : t % 2 = 1)
        even_count == 20 - odd_count
    IN  IF zodiac \notin DOMAIN ZODIAC_NUMBERS THEN Raise("KeyError")
        ELSE
          LET zodiac_nums == ZODIAC_NUMBERS[zodiac]
              zodiac_odd  == CountIf(zodiac_nums, LAMBDA n : n % 2 = 1)
              zodiac_even == Len(zodiac_nums) - zodiac_odd
          IN  IF odd_count > even_count /\ zodiac_even > zodiac_odd THEN Ok(80 * SCALE)
              ELSE IF even_count > odd_count /\ zodiac_odd > zodiac_even
              THEN Ok(80 * SCALE)
              ELSE Ok(50 * SCALE)

-----------------------------------------------------------------------------
(* Metaphysical patterns *)

score_zodiac_relationship(h, zodiac) ==
    IF Len(h) < 1 THEN Ok(50 * SCALE)
    ELSE
      LET last_zodiac == normalize_zodiac(h[1].tema_zodiac)
          clash   == IF Get(ZODIAC_LIU_CHONG, last_zodiac, "None") = zodiac THEN 20 ELSE 0
          harmony == IF zodiac \in Get(ZODIAC_SAN_HE, last_zodiac, {}) THEN 30 ELSE 0
          pair    == IF Get(ZODIAC_LIU_HE, last_zodiac, "None") = zodiac THEN 40 ELSE 0
          score   == 50 - clash + harmony + pair
      IN  Ok(Max(0, Min(100 * SCALE, score * SCALE)))

score_five_elements(h, zodiac) ==
    IF Len(h) < 1 THEN Ok(50 * SCALE)
    ELSE
      LET last_zodiac     == normalize_zodiac(h[1].tema_zodiac)
          last_element    == Get(ZODIAC_FIVE_ELEMENTS, last_zodiac, "earth")
          current_element == Get(ZODIAC_FIVE_ELEMENTS, zodiac, "earth")
          generate == IF ELEMENTS_GENERATE[last_element] = current_element THEN 40 ELSE 0
          restrict == IF ELEMENTS_RESTRICT[last_element] = current_element THEN 30 ELSE 0
          score    == 50 + generate - restrict
      IN  Ok(Max(0, Min(100 * SCALE, score * SCALE)))

score_color_wave(h, zodiac) ==
    LET recent_15 == TemaList(Take(h, 15))
        \* wave_counter.get(wave, 0)
        wave_count(wave) == CountIf(recent_15, LAMBDA t : get_color_wave(t) = wave)
        seen == {w \in {"red", "blue", "green"} : wave_count(w) > 0}
        max_wave ==
            IF seen = {} THEN 5
            ELSE CHOOSE m \in {wave_count(w) : w \in seen} :
                     \A w \in seen : wave_count(w) <= m
    IN  IF zodiac \notin DOMAIN ZODIAC_NUMBERS THEN Raise("KeyError")
        ELSE
          LET nums == ZODIAC_NUMBERS[zodiac]
              \* summed over the zodiac's waves, each weighted by the zodiac's
              \* count of numbers in it: one term per number of the zodiac
              total_score ==
                  SumSeq([i \in 1..Len(nums) |->
                      Max(0, (max_wave - wave_count(get_color_wave(nums[i]))) * 10)])
          IN  Ok(Min(100 * SCALE, (total_score * SCALE) \div Len(nums)))

-----------------------------------------------------------------------------
(* Validation and correction *)

\* a variant of MonteCarloCumulative without the Laplace smoothing: the
\* numerators are the counts
cumulative_unsmoothed(zl) ==
    LET counts == List([i \in 1..Len(ALL_ZODIACS) |-> Count(zl, ALL_ZODIACS[i])])
    IN  List([k \in 1..Len(ALL_ZODIACS) |-> SumSeq(SubSeq(counts, 1, k))])

\* cum[k]: the sum over the first k zodiacs of (count + 1), the numerators of the
\* Laplace-smoothed, normalised distribution; cum[12] is its denominator
MonteCarloCumulative(zl) ==
    LET counts == List([i \in 1..Len(ALL_ZODIACS) |-> Count(zl, ALL_ZODIACS[i]) + 1])
    IN  List([k \in 1..Len(ALL_ZODIACS) |-> SumSeq(SubSeq(counts, 1, k))])

\* whether one weighted draw with rand_val = state / RNG_MOD picks position
\* target of all_zodiacs: target is the first position whose cumulative
\* probability reaches rand_val
MonteCarloPicks(state, cum, target) ==
    LET n == Len(ALL_ZODIACS)
    IN  /\ target \in 1..n
        /\ state * cum[n] <= RNG_MOD * cum[target]
        /\ target = 1 \/ state * cum[n] > RNG_MOD * cum[target - 1]

\* the simulation loop: iteration i draws with the i-th draw after r; the count
\* of the iterations that pick target, and the generator at the end
MonteCarloLoop(r, cum, target) ==
    [count |-> Cardinality({i \in 1..MONTE_CARLO_ITERATIONS :
                               MonteCarloPicks(StateAfter(r.state, i), cum, target)}),
     rng |-> Advance(r, MONTE_CARLO_ITERATIONS)]

\* returns the score and the generator the call leaves behind
score_monte_carlo(h, zodiac, r) ==
    IF Len(h) < 10 THEN [exc |-> "none", val |-> 50 * SCALE, rng |-> r]
    ELSE
      LET cum == MonteCarloCumulative(ZodiacList(h))
          target ==
              IF zodiac \in ZodiacSet
              THEN CHOOSE k \in 1..Len(ALL_ZODIACS) : ALL_ZODIACS[k] = zodiac
              ELSE 0 - 1
          sim == MonteCarloLoop(r, cum, target)
      IN  [exc |-> "none",
           val |-> (sim.count * 100 * SCALE) \div MONTE_CARLO_ITERATIONS,
           rng |-> sim.rng]

score_repeat_penalty(zodiac, recent_predictions) ==
    LET count == Count(recent_predictions, zodiac)
    IN  IF recent_predictions = <<>> THEN Ok(100 * SCALE)
        ELSE IF count = 0 THEN Ok(100 * SCALE)
        ELSE IF count = 1 THEN Ok(60 * SCALE)
        ELSE IF count = 2 THEN Ok(30 * SCALE)
        ELSE Ok(0)

is_prime(n) ==
    IF n < 2 THEN FALSE
    ELSE IF n = 2 THEN TRUE
    ELSE IF n % 2 = 0 THEN FALSE
    ELSE \A i \in {j \in 3..n : j % 2 = 1 /\ j * j <= n} : n % i # 0

score_prime_composite(h, zodiac) ==
    LET recent_15       == TemaList(Take(h, 15))
        prime_count     == CountIf(recent_15, is_prime)
        composite_count == 15 - prime_count
    IN  IF zodiac \notin DOMAIN ZODIAC_NUMBERS THEN Raise("KeyError")
        ELSE
          LET zodiac_nums      == ZODIAC_NUMBERS[zodiac]
              zodiac_prime     == CountIf(zodiac_nums, is_prime)
              zodiac_composite == Len(zodiac_nums) - zodiac_prime
          IN  IF prime_count > composite_count /\ zodiac_composite > zodiac_prime
              THEN Ok(80 * SCALE)
              ELSE IF composite_count > prime_count /\ zodiac_prime > zodiac_composite
              THEN Ok(80 * SCALE)
              ELSE Ok(50 * SCALE)

-----------------------------------------------------------------------------
(* The aggregator *)

\* the keys of the scores dict, in the order _calculate_comprehensive_score sets them
DIMENSIONS ==
    <<"long_term_missing", "short_term_hot", "cycle_pattern", "consecutive_penalty",
      "markov_chain", "fourier_analysis", "bayesian_probability",
      "number_hot_cold", "tail_trend", "big_small", "odd_even",
      "zodiac_relationship", "five_elements", "color_wave",
      "monte_carlo", "repeat_penalty", "prime_composite">>

DimensionSet == {DIMENSIONS[i] : i \in 1..Len(DIMENSIONS)}

\* a variant of WEIGHTS with one hundredth moved from the first group to the second
ShiftedWeights ==
    [long_term_missing |-> 8, short_term_hot |-> 7, cycle_pattern |-> 8,
     consecutive_penalty |-> 6,
     markov_chain |-> 11, fourier_analysis |-> 8, bayesian_probability |-> 7,
     number_hot_cold |-> 5, tail_trend |-> 5, big_small |-> 5, odd_even |-> 5,
     zodiac_relationship |-> 5, five_elements |-> 5, color_wave |-> 5,
     monte_carlo |-> 5, repeat_penalty |-> 3, prime_composite |-> 2]

\* the factor each dimension's score is multiplied by, in hundredths
WEIGHTS ==
    [long_term_missing |-> 8, short_term_hot |-> 7, cycle_pattern |-> 8,
     consecutive_penalty |-> 7,
     markov_chain |-> 10, fourier_analysis |-> 8, bayesian_probability |-> 7,
     number_hot_cold |-> 5, tail_trend |-> 5, big_small |-> 5, odd_even |-> 5,
     zodiac_relationship |-> 5, five_elements |-> 5, color_wave |-> 5,
     monte_carlo |-> 5, repeat_penalty |-> 3, prime_composite |-> 2]

\* the five groups of the "=== n. Group (w%) ===" comments of the aggregator
GROUPS ==
    [basic_statistics      |-> {"long_term_missing", "short_term_hot", "cycle_pattern",
                                "consecutive_penalty"},
     advanced_mathematics  |-> {"markov_chain", "fourier_analysis",
                                "bayesian_probability"},
     number_properties     |-> {"number_hot_cold", "tail_trend", "big_small", "odd_even"},
     metaphysical_patterns |-> {"zodiac_relationship", "five_elements", "color_wave"},
     validation_correction |-> {"monte_carlo", "repeat_penalty", "prime_composite"}]

\* the group weights the module docstring lists, in hundredths
DOCUMENTED_GROUP_WEIGHT ==
    [basic_statistics |-> 30, advanced_mathematics |-> 25, number_properties |-> 20,
     metaphysical_patterns |-> 15, validation_correction |-> 10]

\* the 17 dimension scores of one candidate, and the generator left behind by
\* the one scorer that draws (monte_carlo)
DimensionScores(h, zodiac, period, recent_predictions, r, numpy) ==
    LET mc == score_monte_carlo(h, zodiac, r)
    IN  [raw |->
          [long_term_missing    |-> score_long_term_missing(h, zodiac, period),
           short_term_hot       |-> score_short_term_hot(h, zodiac),
           cycle_pattern        |-> score_cycle_pattern(h, zodiac, period),
           consecutive_penalty  |-> score_consecutive_penalty(h, zodiac),
           markov_chain         |-> score_markov_chain(h, zodiac),
           fourier_analysis     |-> score_fourier_analysis(h, zodiac, numpy),
           bayesian_probability |-> score_bayesian_probability(h, zodiac),
           number_hot_cold      |-> score_number_hot_cold(h, zodiac),
           tail_trend           |-> score_tail_trend(h, zodiac),
           big_small            |-> score_big_small(h, zodiac),
           odd_even             |-> score_odd_even(h, zodiac),
           zodiac_relationship  |-> score_zodiac_relationship(h, zodiac),
           five_elements        |-> score_five_elements(h, zodiac),
           color_wave           |-> score_color_wave(h, zodiac),
           monte_carlo          |-> [exc |-> mc.exc, val |-> mc.val],
           repeat_penalty       |-> score_repeat_penalty(zodiac, recent_predictions),
           prime_composite      |-> score_prime_composite(h, zodiac)],
         rng |-> mc.rng]

\* a variant of RandomFactor with twice the range
WideFactor(r) ==
    2 * Uniform(r, 0 - RANDOM_PERTURBATION_RANGE, RANDOM_PERTURBATION_RANGE)

\* random.uniform(-RANDOM_PERTURBATION_RANGE, RANDOM_PERTURBATION_RANGE), drawn
\* with the draw that led to generator r
RandomFactor(r) == Uniform(r, 0 - RANDOM_PERTURBATION_RANGE, RANDOM_PERTURBATION_RANGE)

\* the scores dict of one candidate (weighted contributions, random_factor,
\* total_score) built from its 17 dimension scores dim, and the generator left
\* behind; r is the generator the call was entered with.  The first exception a
\* scorer raises leaves the call.
WeightedScores(dim, r) ==
    LET raised == {i \in 1..Len(DIMENSIONS) : dim.raw[DIMENSIONS[i]].exc # "none"}
        first  == CHOOSE i \in raised : \A j \in raised : i <= j
        scores == [d \in DimensionSet |-> dim.raw[d].val * WEIGHTS[d]]
        r2     == Draw(dim.rng)
        random_factor == RandomFactor(r2)
    IN  IF raised # {}
        THEN [exc |-> dim.raw[DIMENSIONS[first]].exc,
              rng |-> IF DIMENSIONS[first] \in {"repeat_penalty", "prime_composite"}
                      THEN dim.rng ELSE r]
        ELSE [exc |-> "none",
              scores |-> scores,
              random_factor |-> random_factor,
              total_score |->
                  SumSeq([i \in 1..Len(DIMENSIONS) |-> scores[DIMENSIONS[i]]])
                  + random_factor,
              rng |-> r2]

\* _calculate_comprehensive_score: the 17 scorers applied, then weighted, perturbed
\* and summed
calculate_comprehensive_score(h, zodiac, period, recent_predictions, r, numpy) ==
    WeightedScores(DimensionScores(h, zodiac, period, recent_predictions, r, numpy), r)

-----------------------------------------------------------------------------
(* The stores (DatabaseHandler of bot.py).  A period id (expect) is a      *)
(* decimal string, written as the sequence of its digits; None and the     *)
(* empty string are both <<>>.  A NULL actual_tema is 0.                   *)

\* int(s) of a decimal string
RECURSIVE IntOf(_)
IntOf(s) == IF s = <<>> THEN 0 ELSE 10 * IntOf(SubSeq(s, 1, Len(s) - 1)) + s[Len(s)]

\* a variant of Last3 that takes the leading digits: s[:3]
First3(s) == SubSeq(s, 1, Min(3, Len(s)))

\* s[-3:]
Last3(s) == SubSeq(s, Max(1, Len(s) - 2), Len(s))

\* SELECT * FROM lottery_history ORDER BY expect DESC LIMIT limit
\* (a negative LIMIT is no limit in SQLite)
get_history(store, limit) == IF limit < 0 THEN store ELSE Take(store, limit)

\* the rows WHERE actual_tema IS NOT NULL, in order
RECURSIVE Reconciled(_)
Reconciled(recs) ==
    IF recs = <<>> THEN <<>>
    ELSE IF Head(recs).actual_tema # 0 THEN <<Head(recs)>> \o Reconciled(Tail(recs))
    ELSE Reconciled(Tail(recs))

\* SELECT * FROM prediction_records WHERE actual_tema IS NOT NULL
\* ORDER BY expect DESC LIMIT limit
get_prediction_history(recs, limit) == Take(Reconciled(recs), limit)

\* the two picks of every row, flattened; [] when the store raises
get_recent_predictions(recs, limit, db_raises) ==
    IF db_raises THEN <<>>
    ELSE LET recent == get_prediction_history(recs, limit)
         IN  List([i \in 1..(2 * Len(recent)) |->
                 IF i % 2 = 1
                 THEN normalize_zodiac(recent[(i + 1) \div 2].predict_zodiac1)
                 ELSE normalize_zodiac(recent[i \div 2].predict_zodiac2)])

-----------------------------------------------------------------------------
(* PredictionEngineUltimate.predict_top2_zodiac *)

\* ranges = {0: 300, 1: 200, 2: 100, 3: 50, 4: 30}
RANGES == (0 :> 300) @@ (1 :> 200) @@ (2 :> 100) @@ (3 :> 50) @@ (4 :> 30)

\* the window length the call asks the history store for
DynamicPeriod(period, expect) ==
    IF expect # <<>> THEN RANGES[IntOf(Last3(expect)) % 5]
    ELSE Min(period, 300)

\* a variant of SeededGenerator that does not seed: the call draws from the
\* generator as it finds it
NotSeeded(r, expect, dynamic_period, now) == r

\* the generator after the seeding at the head of the call; now is
\* int(datetime.now().timestamp())
SeededGenerator(r, expect, dynamic_period, now) ==
    IF expect # <<>> THEN Seed(IntOf(expect) * 1000 + dynamic_period)
    ELSE Seed(now)

\* a variant of ResetGenerator that leaves the generator as the call used it
KeepGenerator(r, entropy) == r

\* random.seed() before a return: the generator left to the rest of the process
ResetGenerator(r, entropy) == Unseed(entropy)

\* the period argument handed to the scorers and reported as 'period'
ScorerPeriod(dynamic_period, h) == dynamic_period

\* zodiac_scores: the scores dict of each candidate, computed in the order of
\* all_zodiacs with the generator threaded through; acc is the sequence done so far
RECURSIVE ScoreZodiacs(_, _, _, _, _, _, _)

\* one pass of the loop done: candidate i has the scores dict one (or raised),
\* and the loop goes on with the next candidate
StoreScores(one, i, acc, h, period, recent_predictions, numpy) ==
    IF one.exc # "none" THEN [exc |-> one.exc, scores |-> acc, rng |-> one.rng]
    ELSE ScoreZodiacs(i + 1, Append(acc, one), h, period,
                      recent_predictions, one.rng, numpy)

ScoreZodiacs(i, acc, h, period, recent_predictions, r, numpy) ==
    IF i > Len(ALL_ZODIACS) THEN [exc |-> "none", scores |-> acc, rng |-> r]
    ELSE StoreScores(calculate_comprehensive_score(
                         h, ALL_ZODIACS[i], period, recent_predictions, r, numpy),
                     i, acc, h, period, recent_predictions, numpy)

\* a variant of SortedRank that sorts ascending and reverses the list: equal
\* totals come out in the reverse of the order of all_zodiacs
ReversedRank(totals) ==
    [i \in 1..Len(totals) |->
        1 + Cardinality({j \in 1..Len(totals) :
                \/ totals[j] > totals[i]
                \/ totals[j] = totals[i] /\ j > i})]

\* sorted(items, key=total, reverse=True): a stable sort, so equal totals keep
\* the order of all_zodiacs.  rank[i] is the position of candidate i in the
\* sorted list.
SortedRank(totals) ==
    [i \in 1..Len(totals) |->
        1 + Cardinality({j \in 1..Len(totals) :
                \/ totals[j] > totals[i]
                \/ totals[j] = totals[i] /\ j < i})]

\* the entry of a scores dict without the generator bookkeeping
\* (the returned analysis is keyed by the names of the two candidates picked;
\* top1 and top2 stand for these two keys)
Analysis(one) ==
    [scores |-> one.scores, random_factor |-> one.random_factor,
     total_score |-> one.total_score]

\* the end of the scoring path: all is the outcome of the scoring loop; the
\* candidates are sorted by total, the two best picked, the generator reset and
\* the dict returned
Top2Result(all, h, recent_predictions, dynamic_period, scorer_period) ==
    LET rank == SortedRank(List([i \in 1..Len(all.scores) |->
                                    all.scores[i].total_score]))
        i1   == CHOOSE i \in 1..Len(ALL_ZODIACS) : rank[i] = 1
        i2   == CHOOSE i \in 1..Len(ALL_ZODIACS) : rank[i] = 2
    IN  IF all.exc # "none"
        THEN [ret |-> [exc |-> all.exc],
              rng |-> all.rng,
              reset |-> FALSE,
              history |-> h,
              recent_predictions |-> recent_predictions,
              dynamic_period |-> dynamic_period,
              scorer_period |-> scorer_period]
        ELSE [ret |-> [exc |-> "none",
                       zodiac1 |-> ALL_ZODIACS[i1],
                       zodiac2 |-> ALL_ZODIACS[i2],
                       numbers1 |-> ZODIAC_NUMBERS[ALL_ZODIACS[i1]],
                       numbers2 |-> ZODIAC_NUMBERS[ALL_ZODIACS[i2]],
                       score1 |-> all.scores[i1].total_score,
                       score2 |-> all.scores[i2].total_score,
                       analysis |->
                           [top1 |-> Analysis(all.scores[i1]),
                            top2 |-> Analysis(all.scores[i2]),
                            all_scores |->
                               List([i \in 1..Len(ALL_ZODIACS) |->
                                        Analysis(all.scores[i])])],
                       period |-> scorer_period],
              rng |-> all.rng,
              reset |-> TRUE,
              history |-> h,
              recent_predictions |-> recent_predictions,
              dynamic_period |-> dynamic_period,
              scorer_period |-> scorer_period]

\* The whole call.  store, recs: the two tables; r: the process-wide generator
\* on entry; now, db_raises: what the clock and the prediction store do during
\* the call.  Gives the returned dict (or the exception), the generator at the
\* end, whether the path taken ends with random.seed(), and the readings taken.
predict_top2_zodiac(period, expect, store, recs, r, numpy, now, db_raises) ==
    LET dynamic_period == DynamicPeriod(period, expect)
        r0 == SeededGenerator(r, expect, dynamic_period, now)
        h  == get_history(store, dynamic_period)
    IN  IF h = <<>>
        THEN LET sm == Sample2(r0, ALL_ZODIACS)
             IN  [ret |-> [exc |-> "none",
                           zodiac1 |-> sm.selected[1],
                           zodiac2 |-> sm.selected[2],
                           numbers1 |-> ZODIAC_NUMBERS[sm.selected[1]],
                           numbers2 |-> ZODIAC_NUMBERS[sm.selected[2]],
                           score1 |-> 50 * 100 * SCALE,
                           score2 |-> 45 * 100 * SCALE,
                           analysis |-> <<>>,
                           period |-> 0],
                  rng |-> sm.rng,
                  reset |-> TRUE,
                  history |-> h,
                  recent_predictions |-> <<>>,
                  dynamic_period |-> dynamic_period,
                  scorer_period |-> 0]
        ELSE LET recent_predictions == get_recent_predictions(recs, 5, db_raises)
                 scorer_period == ScorerPeriod(dynamic_period, h)
             IN  Top2Result(ScoreZodiacs(1, <<>>, h, scorer_period,
                                         recent_predictions, r0, numpy),
                            h, recent_predictions, dynamic_period, scorer_period)

-----------------------------------------------------------------------------
(* PredictionEngine.predict_top2_zodiac of bot.py, the four-dimension engine *)

\* the window length the call asks the history store for
LegacyDynamicPeriod(period, expect) ==
    IF expect # <<>> THEN RANGES[IntOf(Last3(expect)) % 5]
    ELSE period

\* [h['tema_zodiac'] for h in history]
RawZodiacList(h) == List([i \in 1..Len(h) |-> h[i].tema_zodiac])

calculate_frequency_score(h, zodiac, period) ==
    LET count == Count(RawZodiacList(h), zodiac)
    IN  IF count = 0 THEN 100 * SCALE
        ELSE Min(100 * SCALE,
                 Max(0, 50 * SCALE + ((period - 12 * count) * 5 * SCALE) \div 12))

calculate_missing_score(h, zodiac) ==
    Min(100 * SCALE, IndexOrLen(RawZodiacList(h), zodiac) * 2 * SCALE)

calculate_cycle_score(h, zodiac, period) ==
    LET count == Count(RawZodiacList(h), zodiac)
    IN  IF 12 * count < period
        THEN Min(100 * SCALE, ((period - 12 * count) * 100 * SCALE) \div period)
        ELSE Max(0, 50 * SCALE - ((12 * count - period) * 5 * SCALE) \div 12)

calculate_trend_score(h, zodiac) ==
    LET recent_count == Count(RawZodiacList(Take(h, 10)), zodiac)
    IN  IF recent_count = 0 THEN 100 * SCALE
        ELSE Max(0, 100 * SCALE - recent_count * 20 * SCALE)

\* the loop over all_zodiacs: each candidate's entry of zodiac_scores, one
\* random.uniform(-5, 5) drawn per candidate
RECURSIVE LegacyScoreZodiacs(_, _, _, _, _)
LegacyScoreZodiacs(i, acc, h, period, r) ==
    IF i > Len(ALL_ZODIACS) THEN [scores |-> acc, rng |-> r]
    ELSE LET zodiac == ALL_ZODIACS[i]
             freq_score    == calculate_frequency_score(h, zodiac, period)
             missing_score == calculate_missing_score(h, zodiac)
             cycle_score   == calculate_cycle_score(h, zodiac, period)
             trend_score   == calculate_trend_score(h, zodiac)
             r1            == Draw(r)
             random_factor == Uniform(r1, 0 - 5, 5)
             final_score   == freq_score * 30 + missing_score * 30
                              + cycle_score * 20 + trend_score * 20 + random_factor
         IN  LegacyScoreZodiacs(i + 1,
                 Append(acc, [score |-> final_score, freq |-> freq_score,
                              missing |-> missing_score, cycle |-> cycle_score,
                              trend |-> trend_score]),
                 h, period, r1)

\* the end of the scoring path of the four-dimension engine: all is the outcome
\* of the scoring loop
LegacyTop2Result(all, h, dynamic_period) ==
    LET rank == SortedRank(List([i \in 1..Len(all.scores) |->
                                    all.scores[i].score]))
        i1   == CHOOSE i \in 1..Len(ALL_ZODIACS) : rank[i] = 1
        i2   == CHOOSE i \in 1..Len(ALL_ZODIACS) : rank[i] = 2
    IN  [ret |-> [exc |-> "none",
                  zodiac1 |-> ALL_ZODIACS[i1],
                  zodiac2 |-> ALL_ZODIACS[i2],
                  numbers1 |-> ZODIAC_NUMBERS[ALL_ZODIACS[i1]],
                  numbers2 |-> ZODIAC_NUMBERS[ALL_ZODIACS[i2]],
                  score1 |-> all.scores[i1].score,
                  score2 |-> all.scores[i2].score,
                  analysis |-> [top1 |-> all.scores[i1],
                                top2 |-> all.scores[i2],
                                all_scores |-> all.scores]],
         rng |-> all.rng,
         reset |-> TRUE,
         history |-> h,
         dynamic_period |-> dynamic_period]

\* The whole call; as for the ultimate engine, with the generator at the end and
\* whether the path taken ends with random.seed()
legacy_predict_top2_zodiac(period, expect, store, r, now) ==
    LET dynamic_period == LegacyDynamicPeriod(period, expect)
        r0 == SeededGenerator(r, expect, dynamic_period, now)
        h  == get_history(store, dynamic_period)
    IN  IF h = <<>>
        THEN LET sm == Sample2(r0, ALL_ZODIACS)
             IN  [ret |-> [exc |-> "none",
                           zodiac1 |-> sm.selected[1],
                           zodiac2 |-> sm.selected[2],
                           numbers1 |-> ZODIAC_NUMBERS[sm.selected[1]],
                           numbers2 |-> ZODIAC_NUMBERS[sm.selected[2]],
                           score1 |-> 50 * 100 * SCALE,
                           score2 |-> 45 * 100 * SCALE,
                           analysis |-> <<>>],
                  rng |-> sm.rng,
                  reset |-> FALSE,
                  history |-> h,
                  dynamic_period |-> dynamic_period]
        ELSE LegacyTop2Result(LegacyScoreZodiacs(1, <<>>, h, dynamic_period, r0),
                              h, dynamic_period)

\* the window length predict_3in3 asks the history store for
ThreeInThreeDynamicPeriod(num_groups, expect) ==
    IF expect # <<>> THEN RANGES[IntOf(Last3(expect)) % 5]
    ELSE 100

-----------------------------------------------------------------------------
(* DatabaseHandler.save_lottery_result *)

\* a < b for two TEXT values (ORDER BY expect compares expect as text)
RECURSIVE TextLess(_, _)
TextLess(a, b) ==
    IF b = <<>> THEN FALSE
    ELSE IF a = <<>> THEN TRUE
    ELSE IF Head(a) # Head(b) THEN Head(a) < Head(b)
    ELSE TextLess(Tail(a), Tail(b))

\* tema_zodiac.replace("龍", "龙").replace("馬", "马").replace("豬", "猪").replace("雞", "鸡")
Simplified(tema_zodiac) ==
    IF tema_zodiac = "dragon_trad" THEN "dragon"
    ELSE IF tema_zodiac = "horse_trad" THEN "horse"
    ELSE IF tema_zodiac = "pig_trad" THEN "pig"
    ELSE IF tema_zodiac = "rooster_trad" THEN "rooster"
    ELSE tema_zodiac

\* INSERT OR REPLACE INTO lottery_history: expect is UNIQUE, so a row with the
\* same expect is replaced; the store is kept in the order get_history reads it
save_lottery_result(store, expect, tema, tema_zodiac) ==
    LET row   == [expect |-> expect, tema |-> tema,
                  tema_zodiac |-> Simplified(tema_zodiac)]
        newer == SelectSeq(store, LAMBDA r : TextLess(expect, r.expect))
        older == SelectSeq(store, LAMBDA r : TextLess(r.expect, expect))
    IN  newer \o <<row>> \o older

-----------------------------------------------------------------------------
(* The inputs the engine is explored with *)

\* str(n) of a non-negative integer
RECURSIVE DigitsOf(_)
DigitsOf(n) == IF n < 10 THEN <<n>> ELSE DigitsOf(n \div 10) \o <<n % 10>>

\* the special number of the i-th oldest draw of a history: a fixed sequence
\* that repeats categories at irregular distances
TemaAt(i) == ((i * i * 3 + i * 7) % 49) + 1

\* the draw of period id, well-formed: its category is its special number's
DrawRow(id, tema) ==
    [expect |-> DigitsOf(id), tema |-> tema, tema_zodiac |-> NUMBER_TO_ZODIAC[tema]]

\* a history store of n draws, periods 1001 .. 1000 + n, newest first
StoreOf(n) == List([i \in 1..n |-> DrawRow(10^3 + n - i + 1, TemaAt(n - i + 1))])

\* a prediction store: rows newest first, three of them reconciled
SomeRecords ==
    <<[expect |-> <<1, 0, 3, 0>>, predict_zodiac1 |-> "ox", predict_zodiac2 |-> "rat",
       actual_tema |-> 0],
      [expect |-> <<1, 0, 2, 9>>, predict_zodiac1 |-> "rat", predict_zodiac2 |-> "tiger",
       actual_tema |-> 6],
      [expect |-> <<1, 0, 2, 8>>, predict_zodiac1 |-> "dragon", predict_zodiac2 |-> "rat",
       actual_tema |-> 12],
      [expect |-> <<1, 0, 2, 7>>, predict_zodiac1 |-> "pig", predict_zodiac2 |-> "rat",
       actual_tema |-> 3]>>

\* the states the process starts in: an empty store; a store one draw short of
\* the simulation's threshold of 10, no prediction made yet, numpy missing; a
\* store at the transform's threshold of 30, predictions made, numpy present
InitialConfigs ==
    {[history |-> StoreOf(0),  records |-> <<>>,        numpy |-> FALSE],
     [history |-> StoreOf(9),  records |-> <<>>,        numpy |-> FALSE],
     [history |-> StoreOf(30), records |-> SomeRecords, numpy |-> TRUE]}

\* what os.urandom gives random.seed()
Entropy == {0, 1}

\* what int(datetime.now().timestamp()) gives
Clock == {1, 2}

\* the period ids predictions are asked for: windows of 30 and 300
Expects == {<<1, 0, 3, 4>>, <<1, 0, 3, 5>>}

\* the (period, expect) arguments of the calls: with a period id as the bot
\* calls (period 300), and without one
UltimateArgs ==
    {[period |-> 300, expect |-> e] : e \in Expects}
        \cup {[period |-> 20, expect |-> <<>>]}

LegacyArgs ==
    {[period |-> 100, expect |-> <<1, 0, 3, 4>>], [period |-> 100, expect |-> <<>>]}

\* the result the lottery API publishes: the draw of the next period after
\* StoreOf(30), its category spelt the traditional way
NewExpects == {<<1, 0, 3, 1>>}

NewDraws == {[tema |-> 2, tema_zodiac |-> "dragon_trad"]}

\* the number of prediction calls one behaviour holds
MaxCalls == 2

-----------------------------------------------------------------------------
(* The engine as a state machine *)

Init ==
    /\ \E c \in InitialConfigs :
          /\ history = c.history
          /\ records = c.records
          /\ NUMPY_AVAILABLE = c.numpy
    /\ \E e \in Entropy : rng = Unseed(e)
    /\ calls = <<>>
    /\ NoBot

\* PredictionEngineUltimate.predict_top2_zodiac(period, expect)
PredictTop2Zodiac ==
    /\ Len(calls) < MaxCalls
    /\ \E a \in UltimateArgs :
       \E now \in IF a.expect = <<>> THEN Clock ELSE {0} :
       \E db_raises \in BOOLEAN :
       \E out \in {predict_top2_zodiac(a.period, a.expect, history, records, rng,
                                       NUMPY_AVAILABLE, now, db_raises)} :
       \E entropy \in Entropy :
                /\ rng' = IF out.reset THEN ResetGenerator(out.rng, entropy)
                          ELSE out.rng
                /\ calls' = Append(calls,
                      [name |-> "PredictionEngineUltimate.predict_top2_zodiac",
                       period |-> a.period, expect |-> a.expect, entry |-> rng,
                       available |-> Len(history),
                       history |-> out.history,
                       recent_predictions |-> out.recent_predictions,
                       dynamic_period |-> out.dynamic_period,
                       scorer_period |-> out.scorer_period,
                       ret |-> out.ret])
    /\ UNCHANGED <<history, records, NUMPY_AVAILABLE, last_expect, pending>>

\* PredictionEngine.predict_top2_zodiac(period, expect)
LegacyPredictTop2Zodiac ==
    /\ Len(calls) < MaxCalls
    /\ \E a \in LegacyArgs :
       \E now \in IF a.expect = <<>> THEN Clock ELSE {0} :
       \E out \in {legacy_predict_top2_zodiac(a.period, a.expect, history, rng, now)} :
       \E entropy \in Entropy :
                /\ rng' = IF out.reset THEN ResetGenerator(out.rng, entropy)
                          ELSE out.rng
                /\ calls' = Append(calls,
                      [name |-> "PredictionEngine.predict_top2_zodiac",
                       period |-> a.period, expect |-> a.expect, entry |-> rng,
                       available |-> Len(history),
                       history |-> out.history,
                       dynamic_period |-> out.dynamic_period,
                       ret |-> out.ret])
    /\ UNCHANGED <<history, records, NUMPY_AVAILABLE, last_expect, pending>>

\* DatabaseHandler.save_lottery_result(expect, open_code, tema, tema_zodiac, open_time)
SaveLotteryResult ==
    /\ \E expect \in NewExpects, d \in NewDraws :
          history' = save_lottery_result(history, expect, d.tema, d.tema_zodiac)
    /\ UNCHANGED <<records, rng, NUMPY_AVAILABLE, calls, last_expect, pending>>

Next ==
    \/ PredictTop2Zodiac
    \/ LegacyPredictTop2Zodiac
    \/ SaveLotteryResult

Spec == Init /\ [][Next]_vars

-----------------------------------------------------------------------------
(* The scorers on their own: every scorer applied to one candidate over one  *)
(* window, as lines 290-314 of _calculate_comprehensive_score apply them     *)

\* the longest of the windows of every length from 0 up
MaxWindow == 32

\* the special number of the i-th oldest draw of a window, by shape: irregular;
\* one category only; the twelve categories in turn; two large numbers in turn;
\* small primes in turn; irregular again
ShapeTema(k, i) ==
    CASE k = 1 -> TemaAt(i)
      [] k = 2 -> 6
      [] k = 3 -> ((i - 1) % 12) + 1
      [] k = 4 -> IF i % 2 = 1 THEN 49 ELSE 48
      [] k = 5 -> <<2, 3, 5, 7, 11, 13>>[(i % 6) + 1]
      [] OTHER -> TemaAt(i + 1)

\* the category of that draw: its special number's, but in the last shape, where
\* the record names another category, at times spelt the traditional way
ShapeZodiac(k, i) ==
    IF k \in 1..5 THEN NUMBER_TO_ZODIAC[ShapeTema(k, i)]
    ELSE <<"dragon_trad", "rat", "horse_trad", "dragon", "pig_trad",
           "rooster_trad", "rat">>[(i % 7) + 1]

Shapes == 1..6

\* a window of n well-formed draws of shape k, newest first
Window(k, n) ==
    List([i \in 1..n |->
             [expect |-> DigitsOf(10^3 + n - i + 1),
              tema |-> ShapeTema(k, n - i + 1),
              tema_zodiac |-> ShapeZodiac(k, n - i + 1)]])

\* every window of one or two draws over a few special numbers
ShortWindows ==
    LET temas == {1, 6, 24, 25, 49}
    IN  {<<DrawRow(10^3 + 1, a)>> : a \in temas}
            \cup {<<DrawRow(10^3 + 2, a), DrawRow(10^3 + 1, b)>> : a, b \in temas}

\* windows as long as the windows the engine asks for
LongWindows == {Window(k, n) : k \in {1, 3, 6}, n \in {100, 300}}

Windows ==
    {Window(k, n) : k \in Shapes, n \in 0..MaxWindow} \cup ShortWindows \cup LongWindows

\* the period argument: a window length the engine asks for that the window
\* fits in, or the window's own length
ScorerPeriods(h) ==
    {p \in {30, 300} : p >= Len(h)} \cup {Max(1, Len(h))}

InitScorer ==
    /\ history \in Windows
    /\ records = SomeRecords
    /\ NUMPY_AVAILABLE \in BOOLEAN
    /\ \E e \in Entropy : rng = Unseed(e)
    /\ calls = <<>>
    /\ NoBot

\* the 17 scorers applied to one candidate
ScoreDimensions ==
    /\ calls = <<>>
    /\ \E zodiac \in ZodiacSet, period \in ScorerPeriods(history), db_raises \in BOOLEAN :
       \E recent_predictions \in {get_recent_predictions(records, 5, db_raises)} :
       \E dim \in {DimensionScores(history, zodiac, period, recent_predictions,
                                   rng, NUMPY_AVAILABLE)} :
          /\ rng' = dim.rng
          /\ calls' = <<[name |-> "PredictionEngineUltimate._score_*",
                         zodiac |-> zodiac, period |-> period,
                         recent_predictions |-> recent_predictions,
                         db_raises |-> db_raises,
                         ret |-> dim.raw]>>
    /\ UNCHANGED <<history, records, NUMPY_AVAILABLE, last_expect, pending>>

\* the 17 scorers applied to a candidate that is none of the 12 categories
ScoreUnknownCandidate ==
    /\ calls = <<>>
    /\ \E zodiac \in {"cat"}, period \in ScorerPeriods(history) :
       \E recent_predictions \in {get_recent_predictions(records, 5, FALSE)} :
       \E dim \in {DimensionScores(history, zodiac, period, recent_predictions,
                                   rng, NUMPY_AVAILABLE)} :
          /\ rng' = dim.rng
          /\ calls' = <<[name |-> "PredictionEngineUltimate._score_*: unknown candidate",
                         zodiac |-> zodiac, period |-> period,
                         recent_predictions |-> recent_predictions,
                         db_raises |-> FALSE,
                         ret |-> dim.raw]>>
    /\ UNCHANGED <<history, records, NUMPY_AVAILABLE, last_expect, pending>>

NextScorer ==
    \/ ScoreDimensions
    \/ ScoreUnknownCandidate

SpecScorer == InitScorer /\ [][NextScorer]_vars

-----------------------------------------------------------------------------
(* The window derivation on its own, in the three calls that make it *)

\* the largest number formed by the last digits of the period ids explored
MaxSuffix == 40

\* n as three digits
Pad3(n) == <<(n \div 100) % 10, (n \div 10) % 10, n % 10>>

\* period ids: short ones ("0" .. "40"), and ids of seven digits as the lottery
\* API gives them (year, then the number of the draw in the year)
PeriodIds ==
    {DigitsOf(n) : n \in 0..MaxSuffix}
        \cup {<<2, 0, 2, 5>> \o Pad3(n) : n \in 0..MaxSuffix}
        \cup {<<2, 0, 2, 4>> \o Pad3(n) : n \in {365, 999}}

InitWindow ==
    /\ history = <<>>
    /\ records = <<>>
    /\ NUMPY_AVAILABLE = FALSE
    /\ rng = Unseed(0)
    /\ calls = <<>>
    /\ NoBot

\* the period ids function name may derive a window for next: each function
\* derives once, all of them for the same period id
NextPeriodIds(name) ==
    {expect \in PeriodIds :
        \A i \in 1..Len(calls) : calls[i].name # name /\ calls[i].expect = expect}

\* lines 177-180 of PredictionEngineUltimate.predict_top2_zodiac
UltimateWindow ==
    /\ \E expect \in NextPeriodIds("PredictionEngineUltimate.predict_top2_zodiac") :
          calls' = Append(calls,
                      [name |-> "PredictionEngineUltimate.predict_top2_zodiac",
                       expect |-> expect,
                       dynamic_period |-> DynamicPeriod(300, expect)])
    /\ UNCHANGED <<history, records, rng, NUMPY_AVAILABLE, last_expect, pending>>

\* lines 1143-1146 of PredictionEngine.predict_top2_zodiac
LegacyWindow ==
    /\ \E expect \in NextPeriodIds("PredictionEngine.predict_top2_zodiac") :
          calls' = Append(calls,
                      [name |-> "PredictionEngine.predict_top2_zodiac",
                       expect |-> expect,
                       dynamic_period |-> LegacyDynamicPeriod(100, expect)])
    /\ UNCHANGED <<history, records, rng, NUMPY_AVAILABLE, last_expect, pending>>

\* lines 1394-1397 of PredictionEngine.predict_3in3
ThreeInThreeWindow ==
    /\ \E expect \in NextPeriodIds("PredictionEngine.predict_3in3") :
          calls' = Append(calls,
                      [name |-> "PredictionEngine.predict_3in3",
                       expect |-> expect,
                       dynamic_period |-> ThreeInThreeDynamicPeriod(1, expect)])
    /\ UNCHANGED <<history, records, rng, NUMPY_AVAILABLE, last_expect, pending>>

NextWindow ==
    \/ UltimateWindow
    \/ LegacyWindow
    \/ ThreeInThreeWindow

SpecWindow == InitWindow /\ [][NextWindow]_vars

-----------------------------------------------------------------------------
(* The ranking on its own: lines 219-245 of predict_top2_zodiac applied to   *)
(* any table of totals, equal totals included                               *)

\* the totals a table is made of, in points
RankLevels == {40, 50, 60}

\* zodiac_scores with total base for every candidate but a and b, which have
\* la and lb; each total is carried by one dimension, nothing is perturbed
RankTable(a, la, b, lb, base) ==
    List([k \in 1..Len(ALL_ZODIACS) |->
        LET total == (CASE k = a -> la [] k = b -> lb [] OTHER -> base) * 100 * SCALE
        IN  [exc |-> "none",
             scores |-> [d \in DimensionSet |->
                            IF d = "long_term_missing" THEN total ELSE 0],
             random_factor |-> 0,
             total_score |-> total,
             rng |-> rng]])

InitRank ==
    /\ history = StoreOf(9)
    /\ records = <<>>
    /\ NUMPY_AVAILABLE = FALSE
    /\ rng = Seed(0)
    /\ calls = <<>>
    /\ NoBot

\* the end of the scoring path, from the sort on
RankZodiacs ==
    /\ calls = <<>>
    /\ \E a, b \in 1..Len(ALL_ZODIACS), la, lb, base \in RankLevels, entropy \in Entropy :
       \E out \in {Top2Result([exc |-> "none", scores |-> RankTable(a, la, b, lb, base),
                                rng |-> rng],
                               history, <<>>, 300, ScorerPeriod(300, history))} :
          /\ rng' = ResetGenerator(out.rng, entropy)
          /\ calls' = <<[name |-> "PredictionEngineUltimate.predict_top2_zodiac: sorted",
                         history |-> out.history,
                         ret |-> out.ret]>>
    /\ UNCHANGED <<history, records, NUMPY_AVAILABLE, last_expect, pending>>

NextRank == RankZodiacs

SpecRank == InitRank /\ [][NextRank]_vars

-----------------------------------------------------------------------------
(* PredictionEngine.predict_3in3 (bot.py): three numbers out of 49, in     *)
(* groups. Rows carry open_code, the numbers of the draw as get_history    *)
(* parses them. Scores are in 1/(100 * SCALE) points.                      *)

\* the numbers of the open_code lists of rows h that pass 1 <= num <= 49, in
\* the order the loops over record and num meet them
RECURSIVE Balls(_)
Balls(h) ==
    IF h = <<>> THEN <<>>
    ELSE SelectSeq(Get(Head(h), "open_code", <<>>),
                   LAMBDA num : 1 <= num /\ num <= 49)
             \o Balls(Tail(h))

\* factor 1: all_scores[num] += 0.4 for each occurrence, balls100 being the
\* numbers of history[:100]
FrequencyFactor(balls100, num) ==
    40 * SCALE * Cardinality({i \in 1..Len(balls100) : balls100[i] = num})

\* factor 2: 30 for a number absent from recent_balls, the numbers of
\* history[:20]; else (idx / 20) * 30 for the first idx whose draw holds it
OmissionFactor(h20, num) ==
    LET recent_balls == {Balls(h20)[i] : i \in 1..Len(Balls(h20))}
        holding == {idx \in 0..(Len(h20) - 1) :
                       \E k \in 1..Len(Get(h20[idx + 1], "open_code", <<>>)) :
                           Get(h20[idx + 1], "open_code", <<>>)[k] = num}
    IN  IF num \notin recent_balls THEN 30 * 100 * SCALE
        ELSE IF holding = {} THEN 0
        ELSE (CHOOSE idx \in holding : \A j \in holding : idx <= j) * 150 * SCALE

\* factor 3: 30 for a number whose category was drawn less often than
\* expected_zodiac = len(zodiac_list) / 12 (1 for an empty list); else
\* max(0, (expected_zodiac - freq) / expected_zodiac * 30); balls30 are the
\* numbers of history[:30]
BalanceFactor(balls30, num) ==
    LET freq == Cardinality({i \in 1..Len(balls30) :
                    NUMBER_TO_ZODIAC[balls30[i]] = NUMBER_TO_ZODIAC[num]})
    IN  IF balls30 = <<>> THEN (IF freq < 1 THEN 30 * 100 * SCALE ELSE 0)
        ELSE IF 12 * freq < Len(balls30) THEN 30 * 100 * SCALE
        ELSE 100 * Max(0, ((Len(balls30) - 12 * freq) * 30 * SCALE) \div Len(balls30))

\* all_scores after line 1477: the three factors and random.uniform(-5, 5),
\* drawn for num = 1, 2, .., 49 in turn from generator r
ThreeInThreeScores(h, r) ==
    List([num \in 1..49 |->
        FrequencyFactor(Balls(Take(h, 100)), num)
            + OmissionFactor(Take(h, 20), num)
            + BalanceFactor(Balls(Take(h, 30)), num)
            + Uniform(Advance(r, num), 0 - 5, 5)])

\* the place of each number among the keys of all_scores: a defaultdict keeps
\* its keys in the order they were first written, so the numbers of
\* history[:100] come first, as met, and the others follow in ascending order
KeyOrder(balls100) ==
    List([num \in 1..49 |->
        LET met == {i \in 1..Len(balls100) : balls100[i] = num}
        IN  IF met = {} THEN Len(balls100) + num
            ELSE CHOOSE i \in met : \A j \in met : i <= j])

\* the 1-based place of each number in sorted(all_scores.items(), key=score,
\* reverse=True): the sort is stable, equal scores keep the order of the keys
RankOfNums(all_scores, key_order) ==
    List([num \in 1..49 |->
        1 + Cardinality({m \in 1..49 :
                \/ all_scores[m] > all_scores[num]
                \/ /\ all_scores[m] = all_scores[num]
                   /\ key_order[m] < key_order[num]})])

\* sorted_nums of line 1480 as the list of its numbers, best first, rank being
\* the place of each number
SortedNums(rank) == List([k \in 1..49 |-> CHOOSE num \in 1..49 : rank[num] = k])

\* sorted(selected)
RECURSIVE SortedAscending(_)
SortedAscending(s) ==
    IF s = <<>> THEN <<>>
    ELSE LET m == CHOOSE i \in 1..Len(s) : \A j \in 1..Len(s) : s[i] <= s[j]
         IN  <<s[m]>> \o SortedAscending(SubSeq(s, 1, m - 1) \o SubSeq(s, m + 1, Len(s)))

\* lines 1502-1507: while len(selected) < 3, random.choice among the
\* candidates not selected yet, random.randint(1, 49) when there is none
RECURSIVE Backfill(_, _, _)
Backfill(selected, candidates, r) ==
    IF Len(selected) >= 3 THEN [selected |-> selected, rng |-> r]
    ELSE LET remaining == SelectSeq(candidates,
                              LAMBDA n : \A k \in 1..Len(selected) : selected[k] # n)
             r1        == Draw(r)
         IN  IF remaining # <<>>
             THEN Backfill(Append(selected, remaining[RandBelow(r1, Len(remaining)) + 1]),
                           candidates, r1)
             ELSE Backfill(Append(selected, 1 + RandBelow(r1, 49)), candidates, r1)

\* lines 1486-1509: top3 of group group_idx and the generator left behind; a
\* single group takes sorted_nums[:3] as ranked, several groups take the
\* candidates at offsets group_idx * 3 + i, i = 0, 1, 2, that exist
SelectTop3(group_idx, num_groups, sorted_nums, r) ==
    IF num_groups = 1 THEN [selected |-> Take(sorted_nums, 3), rng |-> r]
    ELSE LET candidates == Take(sorted_nums, Min(30, Len(sorted_nums)))
             within     == SelectSeq(<<0, 1, 2>>,
                               LAMBDA i : group_idx * 3 + i < Len(candidates))
             at_offsets == List([k \in 1..Len(within) |->
                               candidates[group_idx * 3 + within[k] + 1]])
             filled     == Backfill(at_offsets, candidates, r)
         IN  [selected |-> SortedAscending(filled.selected), rng |-> filled.rng]

\* the dict {top3[0]: first, top3[1]: first - 10, top3[2]: first - 20}, in
\* points: a key written twice keeps the later value
DisplayScores(top3, first) ==
    [n \in {top3[k] : k \in 1..3} |->
        LET k == CHOOSE k \in 1..3 : top3[k] = n /\ \A j \in (k + 1)..3 : top3[j] # n
        IN  first - 10 * (k - 1)]

\* lines 1485-1518 for the groups group_idx .. num_groups - 1
RECURSIVE SelectGroups(_, _, _, _)
SelectGroups(group_idx, num_groups, sorted_nums, r) ==
    IF group_idx >= num_groups THEN [groups |-> <<>>, rng |-> r]
    ELSE LET sel  == SelectTop3(group_idx, num_groups, sorted_nums, r)
             rest == SelectGroups(group_idx + 1, num_groups, sorted_nums, sel.rng)
         IN  [groups |-> <<[top3 |-> sel.selected,
                            scores |-> DisplayScores(sel.selected, 95 - group_idx * 5)]>>
                             \o rest.groups,
              rng |-> rest.rng]

\* random.sample(range(1, 50), k): for 49 numbers the set branch of
\* random.sample, which draws a position again while it is already selected
RECURSIVE SampleDistinct(_, _, _, _)
SampleDistinct(r, n, k, selected) ==
    IF Len(selected) >= k THEN [selected |-> selected, rng |-> r]
    ELSE LET r1 == Draw(r)
             j  == RandBelow(r1, n) + 1
         IN  IF \E i \in 1..Len(selected) : selected[i] = j
             THEN SampleDistinct(r1, n, k, selected)
             ELSE SampleDistinct(r1, n, k, Append(selected, j))

\* lines 1410-1415: without history, num_groups random triples scored 50.0
RECURSIVE RandomGroups(_, _)
RandomGroups(num_groups, r) ==
    IF num_groups <= 0 THEN [groups |-> <<>>, rng |-> r]
    ELSE LET picked == SampleDistinct(r, 49, 3, <<>>)
             top3   == SortedAscending(picked.selected)
             rest   == RandomGroups(num_groups - 1, picked.rng)
         IN  [groups |-> <<[top3 |-> top3, scores |-> [n \in {top3[k] : k \in 1..3} |-> 50]]>>
                             \o rest.groups,
              rng |-> rest.rng]

\* the generator after lines 1394-1404; now is int(datetime.now().timestamp())
ThreeInThreeGenerator(num_groups, expect, now) ==
    IF expect # <<>> THEN Seed(IntOf(expect) * 100 + num_groups)
    ELSE Seed(now)

\* what a call of predict_3in3 leaves: result_groups and the generator as made
\* by the path taken, whether that path ends with random.seed(), the history
\* read and, beside the return value, sorted_nums
ThreeInThreeResult(made, reset, h, sorted_nums) ==
    [ret |-> made.groups,
     rng |-> made.rng,
     reset |-> reset,
     history |-> h,
     sorted_nums |-> sorted_nums]

\* lines 1417-1523 over a non-empty history h, r being the seeded generator
ThreeInThreeRanked(num_groups, h, r, sorted_nums) ==
    ThreeInThreeResult(SelectGroups(0, num_groups, sorted_nums, Advance(r, 49)),
                       TRUE, h, sorted_nums)

\* PredictionEngine.predict_3in3(num_groups, expect) up to its return
predict_3in3(num_groups, expect, store, now) ==
    IF get_history(store, ThreeInThreeDynamicPeriod(num_groups, expect)) = <<>>
    THEN ThreeInThreeResult(
             RandomGroups(num_groups, ThreeInThreeGenerator(num_groups, expect, now)),
             FALSE, <<>>, <<>>)
    ELSE ThreeInThreeRanked(
             num_groups,
             get_history(store, ThreeInThreeDynamicPeriod(num_groups, expect)),
             ThreeInThreeGenerator(num_groups, expect, now),
             SortedNums(RankOfNums(
                 ThreeInThreeScores(
                     get_history(store, ThreeInThreeDynamicPeriod(num_groups, expect)),
                     ThreeInThreeGenerator(num_groups, expect, now)),
                 KeyOrder(Balls(Take(
                     get_history(store, ThreeInThreeDynamicPeriod(num_groups, expect)),
                     100))))))

\* the seven numbers of the i-th oldest draw, pairwise distinct, the special
\* number last
OpenCodeAt(i) ==
    List([k \in 1..7 |-> ((TemaAt(i) - 1 + (7 - k) * ((i % 5) + 3)) % 49) + 1])

\* a history store of n draws, periods 1001 .. 1000 + n, newest first: the rows
\* of lottery_history as get_history returns them
BallStoreOf(n) ==
    List([i \in 1..n |->
        [expect |-> DigitsOf(10^3 + n - i + 1),
         open_code |-> OpenCodeAt(n - i + 1),
         tema |-> TemaAt(n - i + 1),
         tema_zodiac |-> NUMBER_TO_ZODIAC[TemaAt(n - i + 1)]]])

\* stores with no draw, with fewer draws than any window and with more than
\* the windows of 20 and 30
InitGroups ==
    /\ \E n \in {0, 1, 3, 25, 35} : history = BallStoreOf(n)
    /\ records = <<>>
    /\ NUMPY_AVAILABLE = FALSE
    /\ \E e \in Entropy : rng = Unseed(e)
    /\ calls = <<>>
    /\ NoBot

\* PredictionEngine.predict_3in3(num_groups, expect): the bot offers 1, 3, 5
\* and 10 groups; the period ids give windows of 50, 30 and 300, none gives 100
PredictThreeInThree ==
    /\ calls = <<>>
    /\ \E num_groups \in {1, 2, 3, 5, 10, 11},
          expect \in {<<1, 0, 3, 3>>, <<1, 0, 3, 4>>, <<1, 0, 3, 5>>, <<>>},
          now \in Clock, entropy \in Entropy :
       \E out \in {predict_3in3(num_groups, expect, history, now)} :
          /\ rng' = IF out.reset THEN ResetGenerator(out.rng, entropy) ELSE out.rng
          /\ calls' = <<[name |-> "PredictionEngine.predict_3in3",
                         num_groups |-> num_groups,
                         expect |-> expect,
                         history |-> out.history,
                         sorted_nums |-> out.sorted_nums,
                         ret |-> out.ret]>>
    /\ UNCHANGED <<history, records, NUMPY_AVAILABLE, last_expect, pending>>

NextGroups == PredictThreeInThree

SpecGroups == InitGroups /\ [][NextGroups]_vars

-----------------------------------------------------------------------------
(* PredictionEngine.predict_top5 (bot.py): five special numbers by one of  *)
(* five methods.  Scores are in 1/SCALE points.                            *)

\* the keys of Counter(s) sorted by count, largest first, the sort being
\* stable: firsts are the places where s holds a value for the first time (the
\* order of the keys), count[i] is the count of s[i]
SortedByCount(s, firsts, count) ==
    List([k \in 1..Cardinality(firsts) |->
        s[CHOOSE i \in firsts :
            k = 1 + Cardinality({j \in firsts :
                    \/ count[j] > count[i]
                    \/ count[j] = count[i] /\ j < i})]])

\* [key for key, _ in Counter(s).most_common()]: the distinct values of s, the
\* most frequent first; equally frequent values keep the order in which s
\* first holds them
MostCommon(s) ==
    SortedByCount(s, {i \in 1..Len(s) : \A j \in 1..(i - 1) : s[j] # s[i]},
                  List([i \in 1..Len(s) |-> Count(s, s[i])]))

\* lines 929-936 and 1017-1024: top5 being the keys of counter.most_common(5)
\* of tema_list, each scored by its share of the counts of these
predict_by_frequency(tema_list, top5) ==
    [top5 |-> top5,
     scores |-> [num \in {top5[i] : i \in 1..Len(top5)} |->
                    (Count(tema_list, num) * 100 * SCALE)
                        \div SumSeq(List([i \in 1..Len(top5) |->
                                 Count(tema_list, top5[i])]))]]

\* lines 958-984: total_score of a category, low frequencies over 100, 50 and
\* 20 draws and a long absence scoring high
zodiac_total_score(h, zodiac) ==
    388 * SCALE
        - 3600 * Count(RawZodiacList(Take(h, 100)), zodiac)
        - 6000 * Count(RawZodiacList(Take(h, 50)), zodiac)
        - 12000 * Count(RawZodiacList(Take(h, 20)), zodiac)
        + Min(500 * IndexOrLen(RawZodiacList(h), zodiac), 25 * SCALE)

\* lines 1003-1010: random.choice(ZODIAC_NUMBERS[zodiac]) for each category of
\* zodiacs in turn, the i-th pick scored 95 - 7 * i
RECURSIVE ChooseNumbers(_, _, _, _)
ChooseNumbers(zodiacs, r, top5, scores) ==
    IF Len(top5) >= Len(zodiacs) THEN [top5 |-> top5, scores |-> scores, rng |-> r]
    ELSE LET numbers == ZODIAC_NUMBERS[zodiacs[Len(top5) + 1]]
             r1      == Draw(r)
             num     == numbers[RandBelow(r1, Len(numbers)) + 1]
         IN  ChooseNumbers(zodiacs, r1, Append(top5, num),
                           [n \in DOMAIN scores \cup {num} |->
                               IF n = num THEN (95 - 7 * Len(top5)) * SCALE
                               ELSE scores[n]])

\* _predict_by_zodiac(history): a number of each of the five categories that
\* sort first by total_score
predict_by_zodiac(h, r) ==
    LET rank == SortedRank(List([i \in 1..Len(ALL_ZODIACS) |->
                    zodiac_total_score(h, ALL_ZODIACS[i])]))
    IN  ChooseNumbers(List([k \in 1..5 |->
                          ALL_ZODIACS[CHOOSE i \in 1..Len(ALL_ZODIACS) : rank[i] = k]]),
                      r, <<>>, <<>>)

\* random.sample(population, k) for k <= 5: the pool branch for a population
\* of at most 21, the set branch beyond
RECURSIVE SamplePool(_, _, _, _)
SamplePool(r, pool, k, selected) ==
    IF Len(selected) >= k THEN [selected |-> selected, rng |-> r]
    ELSE LET n  == Len(pool)
             r1 == Draw(r)
             j  == RandBelow(r1, n) + 1
         IN  SamplePool(r1, SubSeq(SetAt(pool, j, pool[n]), 1, n - 1), k,
                        Append(selected, pool[j]))

Sample(r, population, k) ==
    IF Len(population) <= 21 THEN SamplePool(r, population, k, <<>>)
    ELSE LET picked == SampleDistinct(r, Len(population), k, <<>>)
         IN  [selected |-> List([i \in 1..k |-> population[picked.selected[i]]]),
              rng |-> picked.rng]

\* _predict_cold_numbers(history): five of the numbers history[:50] never
\* drew, scored 90.0, or the five it drew least often, scored 70.0.
\* list(not_appeared) is in ascending order when the set holds 19 numbers or
\* more (its table then has a slot for each of 1..49)
predict_cold_numbers(h, r) ==
    LET tema_list    == TemaList(Take(h, 50))
        not_appeared == SelectSeq(List([num \in 1..49 |-> num]),
                                  LAMBDA num : Count(tema_list, num) = 0)
        sample       == Sample(r, not_appeared, 5)
        most_common  == MostCommon(tema_list)
        least_common == List([i \in 1..Min(5, Len(most_common)) |->
                            most_common[Len(most_common) - i + 1]])
    IN  IF Len(not_appeared) >= 5
        THEN [top5 |-> sample.selected,
              scores |-> [num \in {sample.selected[i] : i \in 1..5} |-> 90 * SCALE],
              rng |-> sample.rng]
        ELSE [top5 |-> least_common,
              scores |-> [num \in {least_common[i] : i \in 1..Len(least_common)} |->
                             70 * SCALE],
              rng |-> r]

\* lines 1058-1115: all_scores[num], the four factors added up
comprehensive_score(h, num) ==
    LET freq        == Count(TemaList(Take(h, 100)), num)
        recent_20   == TemaList(Take(h, 20))
        zodiac_freq == Count(RawZodiacList(Take(h, 30)), NUMBER_TO_ZODIAC[num])
        recent_5    == TemaList(Take(h, 5))
    IN  (IF freq = 0 THEN 30 * SCALE ELSE Max(0, 30 * SCALE - 14700 * freq))
        + (IF Count(recent_20, num) = 0 THEN 35 * SCALE
           ELSE 1750 * IndexOrLen(recent_20, num))
        + (IF zodiac_freq = 0 THEN 25 * SCALE
           ELSE Max(0, 25 * SCALE - 10000 * zodiac_freq))
        + (IF Count(Take(recent_5, 2), num) > 0 THEN 0 - 10 * SCALE
           ELSE IF Count(recent_5, num) > 0 THEN 0 - 5 * SCALE
           ELSE 10 * SCALE)

\* _predict_comprehensive(history): the five numbers that sort first by
\* all_scores, whose keys are 1..49 in ascending order; the i-th is scored
\* 95 - 7 * i
predict_comprehensive(h) ==
    LET sorted_nums == SortedNums(RankOfNums(
                           List([num \in 1..49 |-> comprehensive_score(h, num)]),
                           List([num \in 1..49 |-> num])))
        top5        == Take(sorted_nums, 5)
    IN  [top5 |-> top5,
         scores |-> [num \in {top5[i] : i \in 1..5} |->
                        (95 - 7 * IndexOrLen(top5, num)) * SCALE]]

\* PredictionEngine.predict_top5(method): top5, scores and the generator left
\* behind
predict_top5(method, store, r) ==
    LET h      == get_history(store, 100)
        random == SampleDistinct(r, 49, 5, <<>>)
        zodiac == predict_by_zodiac(h, r)
        cold   == predict_cold_numbers(h, r)
        ret(found, left) ==
            [history |-> h, rng |-> left,
             ret |-> [top5 |-> found.top5, scores |-> found.scores]]
    IN  IF h = <<>>
        THEN ret([top5 |-> random.selected,
                  scores |-> [num \in {random.selected[i] : i \in 1..5} |-> 50 * SCALE]],
                 random.rng)
        ELSE IF method = "frequency"
        THEN ret(predict_by_frequency(TemaList(h), Take(MostCommon(TemaList(h)), 5)), r)
        ELSE IF method = "zodiac" THEN ret(zodiac, zodiac.rng)
        ELSE IF method = "hot"
        THEN ret(predict_by_frequency(TemaList(Take(h, 30)),
                                      Take(MostCommon(TemaList(Take(h, 30))), 5)), r)
        ELSE IF method = "cold" THEN ret(cold, cold.rng)
        ELSE ret(predict_comprehensive(h), r)

\* a store of three draws, fewer than five special numbers, no prediction made
\* yet; and a store of 47 draws of 47 special numbers, which leave fewer than
\* five never drawn, with predictions made
InitStore ==
    /\ \/ /\ history = BallStoreOf(3)
          /\ records = <<>>
       \/ /\ history = List([i \in 1..47 |->
                            DrawRow(10^3 + 47 - i + 1, ((5 * (47 - i + 1)) % 49) + 1)])
          /\ records = SomeRecords
    /\ NUMPY_AVAILABLE = FALSE
    /\ rng = Unseed(0)
    /\ calls = <<>>
    /\ NoBot

\* a variant of PredictTop5 that also keeps what it predicted as a row of
\* prediction_records
PredictTop5Saving ==
    /\ Len(calls) < MaxCalls
    /\ \E method \in {"frequency", "zodiac", "hot", "cold", "comprehensive", "lucky"} :
       \E out \in {predict_top5(method, history, rng)} :
          /\ rng' = out.rng
          /\ calls' = Append(calls,
                [name |-> "PredictionEngine.predict_top5",
                 method |-> method,
                 history |-> out.history,
                 ret |-> out.ret])
          /\ records' = <<[expect |-> <<>>,
                           predict_zodiac1 |-> NUMBER_TO_ZODIAC[out.ret.top5[1]],
                           predict_zodiac2 |-> NUMBER_TO_ZODIAC[out.ret.top5[Len(out.ret.top5)]],
                           actual_tema |-> 0]>> \o records
    /\ UNCHANGED <<history, NUMPY_AVAILABLE, last_expect, pending>>

\* PredictionEngine.predict_top5(method), asked by the buttons predict_frequency,
\* predict_zodiac, predict_hot, predict_cold and predict_comprehensive; any
\* other method is the comprehensive one
PredictTop5 ==
    /\ Len(calls) < MaxCalls
    /\ \E method \in {"frequency", "zodiac", "hot", "cold", "comprehensive", "lucky"} :
       \E out \in {predict_top5(method, history, rng)} :
          /\ rng' = out.rng
          /\ calls' = Append(calls,
                [name |-> "PredictionEngine.predict_top5",
                 method |-> method,
                 history |-> out.history,
                 ret |-> out.ret])
    /\ UNCHANGED <<history, records, NUMPY_AVAILABLE, last_expect, pending>>

\* the three predictions and the one writer of lottery_history
NextStore ==
    \/ PredictTop2Zodiac
    \/ PredictThreeInThree
    \/ PredictTop5
    \/ SaveLotteryResult

SpecStore == InitStore /\ [][NextStore]_vars

-----------------------------------------------------------------------------
(* Repeated trials: predict_top2_zodiac asked, over one history of 50 draws *)
(* in which one category never appears, for one period id after another,   *)
(* each id seeding the generator differently                                *)

\* the number of trials one behaviour holds
MaxTrials == 20

\* a history of 50 draws, newest first, in which "rat" never appears and each
\* of the 11 other categories appears 4 or 5 times; k (1..10) spreads them
TrialHistory(k) ==
    List([i \in 1..50 |->
        LET zodiac == ALL_ZODIACS[(((i - 1) * k) % 11) + 2]
        IN  [expect |-> DigitsOf(10^3 + 50 - i + 1),
             tema |-> ZODIAC_NUMBERS[zodiac][(((i - 1) \div 11) % 4) + 1],
             tema_zodiac |-> zodiac]])

InitTrials ==
    /\ \E k \in 1..6 : history = TrialHistory(k)
    /\ records = <<>>
    /\ NUMPY_AVAILABLE \in BOOLEAN
    /\ rng = Unseed(0)
    /\ calls = <<>>
    /\ NoBot

\* the next trial: PredictionEngineUltimate.predict_top2_zodiac(300, expect)
\* for the next of the period ids 1053, 1058, 1063, .., whose window is 50
RunTrial ==
    /\ Len(calls) < MaxTrials
    /\ \E expect \in {DigitsOf(10^3 + 53 + 5 * Len(calls))}, entropy \in {0} :
       \E out \in {predict_top2_zodiac(300, expect, history, records, rng,
                                       NUMPY_AVAILABLE, 0, FALSE)} :
          /\ rng' = IF out.reset THEN ResetGenerator(out.rng, entropy) ELSE out.rng
          /\ calls' = Append(calls,
                [name |-> "PredictionEngineUltimate.predict_top2_zodiac: trial",
                 expect |-> expect,
                 dynamic_period |-> out.dynamic_period,
                 ret |-> out.ret])
    /\ UNCHANGED <<history, records, NUMPY_AVAILABLE, last_expect, pending>>

NextTrials == RunTrial

SpecTrials == InitTrials /\ [][NextTrials]_vars

-----------------------------------------------------------------------------
(* LotteryBot (bot.py): the handler of the prediction button and the poll  *)
(* of the lottery API, over the two tables.  Rows of prediction_records    *)
(* carry all their columns but predict_time and analysis_data.             *)

\* the resumed requests and the saving polls one behaviour holds
MaxEvents == 3

\* the requests suspended at one time
MaxPending == 2

\* DatabaseHandler.get_latest_result(): SELECT * FROM lottery_history ORDER BY
\* expect DESC LIMIT 1, the row in a list, <<>> for None
get_latest_result(store) == Take(store, 1)

\* DatabaseHandler.can_predict(expect): no row of prediction_records has expect
can_predict(recs, expect) == \A i \in 1..Len(recs) : recs[i].expect # expect

\* the row save_zodiac_prediction inserts: is_hit takes its DEFAULT 0;
\* actual_tema, actual_zodiac and hit_rank are NULL, written 0, "" and -1
PredictionRow(expect, prediction) ==
    [expect |-> expect,
     predict_zodiac1 |-> prediction.zodiac1,
     predict_zodiac2 |-> prediction.zodiac2,
     predict_numbers1 |-> prediction.numbers1,
     predict_numbers2 |-> prediction.numbers2,
     predict_score1 |-> prediction.score1,
     predict_score2 |-> prediction.score2,
     actual_tema |-> 0,
     actual_zodiac |-> "",
     is_hit |-> 0,
     hit_rank |-> 0 - 1]

\* a variant of save_zodiac_prediction over a table whose expect is not UNIQUE:
\* the INSERT always succeeds
save_zodiac_prediction_unconstrained(recs, expect, prediction) ==
    [ret |-> TRUE,
     records |-> SelectSeq(recs, LAMBDA r : TextLess(expect, r.expect))
                     \o <<PredictionRow(expect, prediction)>>
                     \o SelectSeq(recs, LAMBDA r : ~TextLess(expect, r.expect))]

\* DatabaseHandler.save_zodiac_prediction(expect, ...): INSERT INTO
\* prediction_records; expect is UNIQUE, so the INSERT raises when the period
\* has a row, and the method catches that and returns False.  Rows are kept
\* newest first.
save_zodiac_prediction(recs, expect, prediction) ==
    IF \E i \in 1..Len(recs) : recs[i].expect = expect
    THEN [ret |-> FALSE, records |-> recs]
    ELSE [ret |-> TRUE,
          records |-> SelectSeq(recs, LAMBDA r : TextLess(expect, r.expect))
                          \o <<PredictionRow(expect, prediction)>>
                          \o SelectSeq(recs, LAMBDA r : TextLess(r.expect, expect))]

\* a variant of update_prediction_result that does not look at the second
\* candidate
update_prediction_result_first_only(recs, expect, actual_tema, actual_zodiac) ==
    List([i \in 1..Len(recs) |->
        IF recs[i].expect # expect THEN recs[i]
        ELSE [recs[i] EXCEPT
                 !.actual_tema = actual_tema,
                 !.actual_zodiac = normalize_zodiac(actual_zodiac),
                 !.is_hit = IF normalize_zodiac(actual_zodiac) = recs[i].predict_zodiac1
                            THEN 1 ELSE 2,
                 !.hit_rank = IF normalize_zodiac(actual_zodiac) = recs[i].predict_zodiac1
                              THEN 1 ELSE 0]])

\* DatabaseHandler.update_prediction_result(expect, actual_tema, actual_zodiac):
\* the category is respelt, the record of the period fetched and, if there is
\* one, the rows WHERE expect = ? updated
update_prediction_result(recs, expect, actual_tema, actual_zodiac) ==
    LET zodiac == normalize_zodiac(actual_zodiac)
        record == SelectSeq(recs, LAMBDA r : r.expect = expect)
        is_hit == IF zodiac = record[1].predict_zodiac1 THEN 1
                  ELSE IF zodiac = record[1].predict_zodiac2 THEN 1
                  ELSE 2
        hit_rank == IF zodiac = record[1].predict_zodiac1 THEN 1
                    ELSE IF zodiac = record[1].predict_zodiac2 THEN 2
                    ELSE 0
    IN  IF record = <<>> THEN recs
        ELSE List([i \in 1..Len(recs) |->
                 IF recs[i].expect # expect THEN recs[i]
                 ELSE [recs[i] EXCEPT !.actual_tema = actual_tema,
                                      !.actual_zodiac = zodiac,
                                      !.is_hit = is_hit,
                                      !.hit_rank = hit_rank]])

\* the bot started (lines 3718-3721: last_expect is the period of the latest
\* row, if any) over no draw, or over the draws of periods 1001 to 1003 with
\* either no prediction or one made for period 1004, not drawn yet
InitBot ==
    /\ \/ /\ history = StoreOf(0)
          /\ records = <<>>
          /\ last_expect = <<>>
       \/ /\ history = StoreOf(3)
          /\ \/ records = <<>>
             \/ \E zodiac1, zodiac2 \in {"dragon", "rat", "ox"} :
                   /\ zodiac1 # zodiac2
                   /\ records = <<PredictionRow(<<1, 0, 0, 4>>,
                                    [zodiac1 |-> zodiac1, zodiac2 |-> zodiac2,
                                     numbers1 |-> ZODIAC_NUMBERS[zodiac1],
                                     numbers2 |-> ZODIAC_NUMBERS[zodiac2],
                                     score1 |-> 60 * 100 * SCALE,
                                     score2 |-> 55 * 100 * SCALE])>>
          /\ last_expect = <<1, 0, 0, 3>>
    /\ NUMPY_AVAILABLE = FALSE
    /\ rng = Unseed(0)
    /\ calls = <<>>
    /\ pending = <<>>

\* LotteryBot.perform_zodiac_prediction up to its first await (lines
\* 1892-1916): the request goes on with the period after the latest draw if
\* that period has no record (it returns, changing nothing, if there is no
\* draw or the period has a record)
PerformZodiacPrediction ==
    /\ Len(pending) < MaxPending
    /\ get_latest_result(history) # <<>>
    /\ \E next_expect \in {DigitsOf(IntOf(get_latest_result(history)[1].expect) + 1)} :
          /\ can_predict(records, next_expect)
          /\ pending' = Append(pending, next_expect)
    /\ UNCHANGED <<history, records, rng, NUMPY_AVAILABLE, calls, last_expect>>

\* LotteryBot.perform_zodiac_prediction after its last await (lines
\* 1939-1958): the request of next_expect predicts and saves; an exception of
\* the engine ends the handler before it saves
SaveZodiacPrediction ==
    /\ Len(calls) < MaxEvents
    /\ \E i \in 1..Len(pending), entropy \in Entropy :
       \E out \in {predict_top2_zodiac(300, pending[i], history, records, rng,
                                       NUMPY_AVAILABLE, 0, FALSE)} :
       \E saved \in {IF out.ret.exc = "none"
                     THEN save_zodiac_prediction(records, pending[i], out.ret)
                     ELSE [ret |-> FALSE, records |-> records]} :
          /\ rng' = IF out.reset THEN ResetGenerator(out.rng, entropy) ELSE out.rng
          /\ records' = saved.records
          /\ pending' = SubSeq(pending, 1, i - 1) \o SubSeq(pending, i + 1, Len(pending))
          /\ calls' = Append(calls,
                [name |-> "LotteryBot.perform_zodiac_prediction",
                 expect |-> pending[i],
                 saved |-> saved.ret])
    /\ UNCHANGED <<history, NUMPY_AVAILABLE, last_expect>>

\* LotteryBot.check_new_result: one poll of the API, which returns the result
\* of period 1003, 1004 or 1005 (the category of 1004 spelt the traditional
\* way).  There is no await before notify_users, the last statement.
\* check_3in3_results reads the table predictions_3in3, which init_database
\* does not create: in a database without it the statement raises,
\* check_new_result logs the error and notify_users is not reached.
CheckNewResult ==
    \E result \in {DrawRow(10^3 + 3, TemaAt(3)),
                   [expect |-> <<1, 0, 0, 4>>, tema |-> 2, tema_zodiac |-> "dragon_trad"],
                   DrawRow(10^3 + 5, TemaAt(5))} :
       IF last_expect # <<>> /\ result.expect = last_expect
       THEN UNCHANGED vars
       ELSE IF /\ get_latest_result(history) # <<>>
               /\ get_latest_result(history)[1].expect = result.expect
       THEN /\ last_expect' = result.expect
            /\ UNCHANGED <<history, records, rng, NUMPY_AVAILABLE, calls, pending>>
       ELSE /\ Len(calls) < MaxEvents
            /\ history' = save_lottery_result(history, result.expect, result.tema,
                                              result.tema_zodiac)
            /\ last_expect' = result.expect
            /\ records' = update_prediction_result(records, result.expect, result.tema,
                                                   result.tema_zodiac)
            /\ \E has_predictions_3in3 \in BOOLEAN :
                  calls' = Append(calls, [name |-> "LotteryBot.check_new_result",
                                          result |-> result,
                                          notified |-> has_predictions_3in3])
            /\ UNCHANGED <<rng, NUMPY_AVAILABLE, pending>>

NextBot ==
    \/ PerformZodiacPrediction
    \/ SaveZodiacPrediction
    \/ CheckNewResult

SpecBot == InitBot /\ [][NextBot]_vars

-----------------------------------------------------------------------------
(* Properties *)

\* the positions in calls of the calls of the ultimate engine's predict_top2_zodiac
UltimateCalls ==
    {i \in 1..Len(calls) : calls[i].name = "PredictionEngineUltimate.predict_top2_zodiac"}

\* two calls were given the same period id and read the same history and the
\* same recent predictions
SameInputs(a, b) ==
    /\ a.expect # <<>>
    /\ a.expect = b.expect
    /\ a.history = b.history
    /\ a.recent_predictions = b.recent_predictions

\* two returns name the same two candidates with the same two scores
SameTop2(a, b) ==
    /\ a.exc = b.exc
    /\ a.exc = "none" =>
          /\ a.zodiac1 = b.zodiac1
          /\ a.zodiac2 = b.zodiac2
          /\ a.score1 = b.score1
          /\ a.score2 = b.score2

\* C1: any two calls of the ultimate engine's predict_top2_zodiac with the same
\* period id, the same history read and the same recent predictions read return
\* the same two candidates and the same two scores, whatever calls ran before or
\* between them and whatever state they left the generator in.
C1_Deterministic ==
    \A i, j \in UltimateCalls :
        SameInputs(calls[i], calls[j]) => SameTop2(calls[i].ret, calls[j].ret)

\* C1's case: two such calls that scored a window long enough for the simulation
\* to draw, the second entered with the generator in another state than the first
C1_Witness ==
    \E i, j \in UltimateCalls :
        /\ i < j
        /\ SameInputs(calls[i], calls[j])
        /\ Len(calls[i].history) >= 10
        /\ calls[i].entry # calls[j].entry
        /\ calls[i].ret.exc = "none"

\* C2: when a call of the ultimate engine's predict_top2_zodiac has returned, by
\* the empty-history path or by the scoring path, the generator is unseeded:
\* random.seed() without argument was the last seeding.
C2_ResetOnEveryReturn ==
    LET n == Len(calls)
    IN  (n \in UltimateCalls /\ calls[n].ret.exc = "none") => rng.seeded = FALSE

\* C2's case: a call that returned by the empty-history path, then, a draw saved,
\* a call that returned by the scoring path
C2_Witness ==
    /\ UltimateCalls = {1, 2}
    /\ calls[1].history = <<>> /\ calls[1].ret.exc = "none"
    /\ calls[2].history # <<>> /\ calls[2].ret.exc = "none"
    /\ rng.seeded = FALSE

\* the sum of the weights of the dimensions in set D, in hundredths
WeightSum(D) ==
    SumSeq([i \in 1..Len(DIMENSIONS) |->
               IF DIMENSIONS[i] \in D THEN WEIGHTS[DIMENSIONS[i]] ELSE 0])

\* C3: the weights a call that scored has applied sum, over the dimensions of
\* each of the five groups, to the group's listed weight (30, 25, 20, 15, 10
\* hundredths); the groups share no dimension, and the 17 weights sum to 100
\* hundredths, the random term apart.
C3_WeightsSum ==
    \A i \in UltimateCalls :
        (calls[i].history # <<>> /\ calls[i].ret.exc = "none") =>
            /\ \A g \in DOMAIN GROUPS : WeightSum(GROUPS[g]) = DOCUMENTED_GROUP_WEIGHT[g]
            /\ \A g1, g2 \in DOMAIN GROUPS : g1 # g2 => GROUPS[g1] \cap GROUPS[g2] = {}
            /\ UNION {GROUPS[g] : g \in DOMAIN GROUPS} = DimensionSet
            /\ DOMAIN calls[i].ret.analysis.top1.scores = DimensionSet
            /\ Cardinality(DimensionSet) = 17
            /\ WeightSum(DimensionSet) = 100

\* C3's case: a call that scored, the breakdown of its first pick holding one
\* weighted contribution for each of the 17 dimensions
C3_Witness ==
    \E i \in UltimateCalls :
        /\ calls[i].history # <<>>
        /\ calls[i].ret.exc = "none"
        /\ DOMAIN calls[i].ret.analysis.top1.scores = DimensionSet

\* the positions in calls of the applications of the 17 scorers
ScorerCalls ==
    {i \in 1..Len(calls) : calls[i].name = "PredictionEngineUltimate._score_*"}

\* a scorer returned a score within [0, 100]
InRange(score) == score.exc = "none" /\ 0 <= score.val /\ score.val <= 100 * SCALE

\* C4: over a window of at least one well-formed draw, each of the 17 scorers
\* returns, for each of the 12 candidates, a score within [0, 100].
C4_ScoresInRange ==
    \A i \in ScorerCalls :
        Len(history) >= 1 => \A d \in DimensionSet : InRange(calls[i].ret[d])

\* C4's case: the scorers applied, numpy present, to a window of 300 draws, one
\* of them returning 0 and another 100
C4_Witness ==
    \E i \in ScorerCalls :
        /\ Len(history) = 300
        /\ NUMPY_AVAILABLE
        /\ \E d1, d2 \in DimensionSet :
              calls[i].ret[d1].val = 0 /\ calls[i].ret[d2].val = 100 * SCALE

\* C5: over the empty window, each of the 17 scorers returns, for each of the 12
\* candidates, a score within [0, 100], and none raises.
C5_EmptyWindowScores ==
    \A i \in ScorerCalls :
        history = <<>> => \A d \in DimensionSet : InRange(calls[i].ret[d])

\* C6: a call of the ultimate engine's predict_top2_zodiac that reads no history
\* does not raise and returns two different candidates of the 12 with their
\* numbers, the scores 50.0 and 45.0, an empty analysis and period 0, without
\* reading the recent predictions.
C6_EmptyHistoryFallback ==
    \A i \in UltimateCalls :
        calls[i].history = <<>> =>
            LET r == calls[i].ret
            IN  /\ r.exc = "none"
                /\ r.zodiac1 \in ZodiacSet /\ r.zodiac2 \in ZodiacSet
                /\ r.zodiac1 # r.zodiac2
                /\ r.numbers1 = ZODIAC_NUMBERS[r.zodiac1]
                /\ r.numbers2 = ZODIAC_NUMBERS[r.zodiac2]
                /\ r.score1 = 50 * 100 * SCALE
                /\ r.score2 = 45 * 100 * SCALE
                /\ r.analysis = <<>>
                /\ r.period = 0
                /\ calls[i].recent_predictions = <<>>

\* C6's case: a call that asked an empty store for a window of 300 draws
C6_Witness ==
    \E i \in UltimateCalls :
        /\ calls[i].available = 0
        /\ calls[i].history = <<>>
        /\ calls[i].dynamic_period = 300
        /\ calls[i].ret.exc = "none"

\* C7: a call of the ultimate engine's predict_top2_zodiac that reads a history
\* of at least one draw, however short of the window asked for, does not raise
\* and returns two different candidates of the 12.
C7_ShortHistoryCompletes ==
    \A i \in UltimateCalls :
        calls[i].history # <<>> =>
            LET r == calls[i].ret
            IN  /\ r.exc = "none"
                /\ r.zodiac1 \in ZodiacSet /\ r.zodiac2 \in ZodiacSet
                /\ r.zodiac1 # r.zodiac2

\* C7's case: a call that asked for a window of 300 draws and read one draw
C7_Witness ==
    \E i \in UltimateCalls :
        /\ calls[i].dynamic_period = 300
        /\ Len(calls[i].history) = 1
        /\ calls[i].ret.exc = "none"

\* table[n mod 5] of the specification's window table
TableWindow(n) ==
    CASE n % 5 = 0 -> 300
      [] n % 5 = 1 -> 200
      [] n % 5 = 2 -> 100
      [] n % 5 = 3 -> 50
      [] n % 5 = 4 -> 30

\* C8: given a period id, each of the three functions (the ultimate engine's
\* predict_top2_zodiac, bot.py's predict_top2_zodiac and predict_3in3) asks for
\* the window table[n mod 5], n the number formed by the last three digits of
\* the period id.
C8_WindowTable ==
    \A i \in 1..Len(calls) :
        calls[i].expect # <<>> =>
            calls[i].dynamic_period = TableWindow(IntOf(calls[i].expect) % 1000)

\* C8's case: the three functions each derived the window of one period id of
\* seven digits whose last three digits form a number above 5, and got 30
C8_Witness ==
    /\ {calls[i].name : i \in 1..Len(calls)} =
          {"PredictionEngineUltimate.predict_top2_zodiac",
           "PredictionEngine.predict_top2_zodiac", "PredictionEngine.predict_3in3"}
    /\ \A i \in 1..Len(calls) :
          /\ Len(calls[i].expect) = 7
          /\ IntOf(Last3(calls[i].expect)) > 5
          /\ calls[i].dynamic_period = 30

\* C9: the period a call of the ultimate engine's predict_top2_zodiac hands to
\* the scorers, and the 'period' it reports, is the smaller of the window length
\* it asked for and the number of draws in the history store.
C9_WindowIsMin ==
    \A i \in UltimateCalls :
        calls[i].ret.exc = "none" =>
            /\ calls[i].scorer_period = Min(calls[i].dynamic_period, calls[i].available)
            /\ calls[i].ret.period = Min(calls[i].dynamic_period, calls[i].available)

\* the sum of the 17 weighted contributions of one breakdown
ContributionSum(scores) == SumSeq([i \in 1..Len(DIMENSIONS) |-> scores[DIMENSIONS[i]]])

\* one candidate's breakdown: 17 contributions, and a total that is their sum
\* plus one random_factor of at most RANDOM_PERTURBATION_RANGE points either way
SumPlusPerturbation(a) ==
    /\ DOMAIN a.scores = DimensionSet
    /\ a.total_score = ContributionSum(a.scores) + a.random_factor
    /\ Abs(a.random_factor) <= RANDOM_PERTURBATION_RANGE * 100 * SCALE
    /\ Abs(a.total_score - ContributionSum(a.scores))
          <= RANDOM_PERTURBATION_RANGE * 100 * SCALE

\* C10: in every call that scored, each candidate's total_score is the sum of
\* the 17 weighted contributions of its breakdown plus its random_factor, and the
\* random_factor lies within [-15, 15].
C10_TotalIsSumPlusPerturbation ==
    \A i \in UltimateCalls :
        (calls[i].history # <<>> /\ calls[i].ret.exc = "none") =>
            LET an == calls[i].ret.analysis
            IN  /\ \A k \in 1..Len(ALL_ZODIACS) : SumPlusPerturbation(an.all_scores[k])
                /\ SumPlusPerturbation(an.top1)
                /\ SumPlusPerturbation(an.top2)

\* C10's case: a call that scored, one candidate perturbed by more than 10
\* points upwards and another by more than 10 points downwards
C10_Witness ==
    \E i \in UltimateCalls :
        /\ calls[i].history # <<>>
        /\ calls[i].ret.exc = "none"
        /\ \E k1, k2 \in 1..Len(ALL_ZODIACS) :
              /\ calls[i].ret.analysis.all_scores[k1].random_factor > 10 * 100 * SCALE
              /\ calls[i].ret.analysis.all_scores[k2].random_factor < 0 - 10 * 100 * SCALE

\* the calls that went through the ranking: the whole call, or its part from
\* the sort on
RankedCalls ==
    {i \in 1..Len(calls) :
        /\ calls[i].name \in {"PredictionEngineUltimate.predict_top2_zodiac",
                               "PredictionEngineUltimate.predict_top2_zodiac: sorted"}
        /\ calls[i].history # <<>>
        /\ calls[i].ret.exc = "none"}

\* the place of a candidate in the canonical order
ZodiacIndex(z) == CHOOSE k \in 1..Len(ALL_ZODIACS) : ALL_ZODIACS[k] = z

\* the return r names the first two candidates of the 12 sorted by total
\* descending, equal totals in canonical order, with their breakdowns and the
\* table of the 12
FirstTwoOfSorted(r) ==
    LET table == r.analysis.all_scores
        i1 == ZodiacIndex(r.zodiac1)
        i2 == ZodiacIndex(r.zodiac2)
        others == (1..Len(ALL_ZODIACS)) \ {i1, i2}
    IN  /\ Len(table) = 12
        /\ r.zodiac1 \in ZodiacSet /\ r.zodiac2 \in ZodiacSet
        /\ r.zodiac1 # r.zodiac2
        /\ r.score1 = table[i1].total_score
        /\ r.score2 = table[i2].total_score
        /\ r.score1 >= r.score2
        /\ \A k \in others : r.score2 >= table[k].total_score
        /\ r.score1 = r.score2 => i1 < i2
        /\ \A k \in others : table[k].total_score = r.score2 => i2 < k
        /\ r.analysis.top1 = table[i1]
        /\ r.analysis.top2 = table[i2]

\* C11: with a non-empty history, predict_top2_zodiac returns as zodiac1 and
\* zodiac2 the first two of the 12 candidates sorted by total_score descending,
\* equal totals in the canonical order of the categories: score1 >= score2 >=
\* every other total, the two differ, and the result carries both breakdowns
\* and a table of exactly the 12 candidates.
C11_Top2OfSorted ==
    \A i \in RankedCalls : FirstTwoOfSorted(calls[i].ret)

\* C11's case: a table in which three candidates share the highest total, a
\* candidate earlier in the canonical order has a lower one, and the first two
\* of the three were returned
C11_Witness ==
    \E i \in RankedCalls :
        LET r == calls[i].ret
            table == r.analysis.all_scores
        IN  /\ r.score1 = r.score2
            /\ ZodiacIndex(r.zodiac1) > 1
            /\ table[1].total_score < r.score1
            /\ \E k \in 1..Len(table) :
                  /\ k > ZodiacIndex(r.zodiac2)
                  /\ table[k].total_score = r.score1

\* candidate zodiac is the category of no draw of window h
AbsentFrom(h, zodiac) ==
    \A j \in 1..Len(h) : normalize_zodiac(h[j].tema_zodiac) # zodiac

\* C12: a candidate that is the category of no draw of a window of at least one
\* draw scores 100 on the long-term-missing dimension, also when the window
\* holds fewer draws than the window length asked for.
C12_AbsentScoresMax ==
    \A i \in ScorerCalls :
        (Len(history) >= 1 /\ AbsentFrom(history, calls[i].zodiac)) =>
            calls[i].ret.long_term_missing = Ok(100 * SCALE)

\* candidate zodiac is the category of the k-th most recent draw of window h
CategoryOfDraw(h, k, zodiac) ==
    k <= Len(h) /\ normalize_zodiac(h[k].tema_zodiac) = zodiac

\* C13: the consecutive-appearance penalty scores a candidate 0 if it is the
\* category of the most recent draw, whatever the older draws; else 30 if it is
\* the category of the 2nd or 3rd most recent draw; else 60 if it is that of
\* the 4th or 5th; else 100.
C13_ConsecutivePenaltySteps ==
    \A i \in ScorerCalls :
        LET z == calls[i].zodiac
            stepped ==
                IF CategoryOfDraw(history, 1, z) THEN 0
                ELSE IF CategoryOfDraw(history, 2, z) \/ CategoryOfDraw(history, 3, z)
                THEN 30
                ELSE IF CategoryOfDraw(history, 4, z) \/ CategoryOfDraw(history, 5, z)
                THEN 60
                ELSE 100
        IN  calls[i].ret.consecutive_penalty = Ok(stepped * SCALE)

\* C13's case: a candidate that is the category of the most recent draw and of
\* the 4th most recent one, scored 0
C13_Witness ==
    \E i \in ScorerCalls :
        /\ CategoryOfDraw(history, 1, calls[i].zodiac)
        /\ CategoryOfDraw(history, 4, calls[i].zodiac)
        /\ ~CategoryOfDraw(history, 2, calls[i].zodiac)
        /\ calls[i].ret.consecutive_penalty = Ok(0)

\* Windows are newest first: the draw at position j >= 2 is followed in time by
\* the draw at position j - 1.

\* the positions of the draws of window h, other than the most recent one, whose
\* category is that of the most recent draw; each has a successor in the window
EarlierOccurrences(h) ==
    LET zl == ZodiacList(h)
    IN  {j \in 2..Len(zl) : zl[j] = zl[1]}

\* 100 times the fraction of the draws at positions S of window h whose next
\* (later) draw has category zodiac
NextDrawRatio(h, S, zodiac) ==
    LET zl == ZodiacList(h)
    IN  (Cardinality({j \in S : zl[j - 1] = zodiac}) * 100 * SCALE) \div Cardinality(S)

\* C14: when the category L of the most recent draw occurs earlier in the window,
\* the Markov score of candidate c is 100 times the fraction, among the earlier
\* draws of category L, of those whose next (later) draw has category c:
\* transitions L then c, counted in time order.
C14_MarkovFirstOrder ==
    \A i \in ScorerCalls :
        EarlierOccurrences(history) # {} =>
            calls[i].ret.markov_chain =
                Ok(NextDrawRatio(history, EarlierOccurrences(history), calls[i].zodiac))

\* the positions at which the pair of the two most recent draws (second newest,
\* then newest) occurred earlier in window h, given by the later draw of the pair
EarlierPairs(h) ==
    LET zl == ZodiacList(h)
    IN  {j \in 2..(Len(zl) - 1) : zl[j] = zl[1] /\ zl[j + 1] = zl[2]}

\* C15: when the category of the most recent draw occurs nowhere earlier in a
\* window of at least one draw, the Markov score is the second-order estimate
\* (pair, then next) if the pair of the two most recent draws occurred earlier,
\* and otherwise the neutral 50; it is no first-order ratio.
C15_MarkovFallback ==
    \A i \in ScorerCalls :
        (Len(history) >= 1 /\ EarlierOccurrences(history) = {}) =>
            calls[i].ret.markov_chain =
                IF EarlierPairs(history) # {}
                THEN Ok(NextDrawRatio(history, EarlierPairs(history), calls[i].zodiac))
                ELSE Ok(50 * SCALE)

\* the positions of the draws of window h, other than the most recent one, that
\* are in the state (category, special number > 24, special number odd) of the
\* most recent draw
EarlierStates(h) ==
    {j \in 2..Len(h) : BayesState(h[j]) = BayesState(h[1])}

\* C16: over a window of at least one draw the Bayesian score is the neutral 50
\* when the state of the most recent draw occurs nowhere else in the window, and
\* otherwise 100 times the fraction of the state's earlier occurrences whose
\* next (later) draw has the candidate's category.
C16_BayesianState ==
    \A i \in ScorerCalls :
        Len(history) >= 1 =>
            calls[i].ret.bayesian_probability =
                IF EarlierStates(history) = {} THEN Ok(50 * SCALE)
                ELSE Ok(NextDrawRatio(history, EarlierStates(history), calls[i].zodiac))

\* C17: for a fixed window and window length, the cycle-deviation score never
\* rises with the number of appearances: a candidate with fewer appearances in
\* the window scores no lower than one with more.
C17_CycleScoreMonotone ==
    \A i \in ScorerCalls :
        \A other \in ZodiacSet :
            Count(ZodiacList(history), other) < Count(ZodiacList(history), calls[i].zodiac)
                => score_cycle_pattern(history, other, calls[i].period).val
                       >= calls[i].ret.cycle_pattern.val

\* the scorer applications the Monte Carlo statements are about: a candidate
\* that is the category of no draw of a window of at least 30 draws
AbsentFromLongWindow ==
    {i \in ScorerCalls : Len(history) >= 30 /\ AbsentFrom(history, calls[i].zodiac)}

\* C18 as stated: for a candidate of frequency 0 in a window of at least 30
\* draws, the Monte Carlo score of one call is never exactly 0 and never above
\* 20, whatever the generator draws.
C18_NeverZeroNorAbove20 ==
    \A i \in AbsentFromLongWindow :
        /\ calls[i].ret.monte_carlo.exc = "none"
        /\ calls[i].ret.monte_carlo.val > 0
        /\ calls[i].ret.monte_carlo.val <= 20 * SCALE

\* C18 amended: for such a candidate each of the MONTE_CARLO_ITERATIONS weighted
\* draws lands on the candidate with the Laplace-smoothed probability
\* 1 / (n + 12), n the window size, so that the value the score converges to,
\* 100 / (n + 12), is above 0 and at most 20; the score of one call is a whole
\* number of simulated hits out of 100, between 0 and 100, and may be 0.
C18_SmoothedMean ==
    \A i \in AbsentFromLongWindow :
        LET cum    == MonteCarloCumulative(ZodiacList(history))
            t      == ZodiacIndex(calls[i].zodiac)
            weight == cum[t] - (IF t = 1 THEN 0 ELSE cum[t - 1])
            total  == cum[Len(ALL_ZODIACS)]
        IN  /\ weight = 1
            /\ total = Len(history) + 12
            /\ (weight * 100 * SCALE) \div total > 0
            /\ weight * 100 <= 20 * total
            /\ calls[i].ret.monte_carlo.exc = "none"
            /\ calls[i].ret.monte_carlo.val \in
                   {k * (100 \div MONTE_CARLO_ITERATIONS) * SCALE :
                       k \in 0..MONTE_CARLO_ITERATIONS}

\* C18's case: such a candidate, over a window of 30 draws or more, on which
\* some of the simulated draws landed
C18_Witness ==
    \E i \in AbsentFromLongWindow :
        /\ calls[i].ret.monte_carlo.val > 0
        /\ calls[i].ret.monte_carlo.val <= 20 * SCALE

\* the candidates recommended, as first or second pick, by the last limit
\* predictions emitted (rows of the prediction store, newest first)
RecentlyRecommended(recs, limit) ==
    LET recent == Take(recs, limit)
    IN  List([k \in 1..(2 * Len(recent)) |->
            IF k % 2 = 1
            THEN normalize_zodiac(recent[(k + 1) \div 2].predict_zodiac1)
            ELSE normalize_zodiac(recent[k \div 2].predict_zodiac2)])

\* C19: the repeat-prediction penalty scores a candidate 100, 60, 30 or 0 when
\* it occurs 0, 1, 2 or at least 3 times among the candidates recommended by
\* the last 5 predictions emitted, and 100 when there is no prediction or the
\* provider of the recent predictions raises.
C19_RepeatPenaltySteps ==
    \A i \in ScorerCalls :
        LET count == Count(RecentlyRecommended(records, 5), calls[i].zodiac)
            stepped ==
                IF calls[i].db_raises \/ records = <<>> THEN 100
                ELSE CASE count = 0 -> 100
                       [] count = 1 -> 60
                       [] count = 2 -> 30
                       [] OTHER -> 0
        IN  calls[i].ret.repeat_penalty = Ok(stepped * SCALE)

\* the positions in calls of the calls of predict_3in3 that found a history
GroupCalls ==
    {i \in 1..Len(calls) :
        /\ calls[i].name = "PredictionEngine.predict_3in3"
        /\ calls[i].history # <<>>}

\* the numbers of a group
NumbersOf(group) == {group.top3[k] : k \in 1..Len(group.top3)}

\* C20: predict_3in3 with a non-empty history and num_groups = n returns
\* exactly n groups, each of 3 pairwise distinct numbers in 1..49 sorted
\* ascending; for 2 <= n <= 10 group i holds the numbers ranked at positions
\* 3i, 3i+1, 3i+2 of the score-sorted list, so the groups are pairwise
\* disjoint; for n = 1 the group holds the top 3 ranked numbers
C20_GroupsOfRanked ==
    \A c \in GroupCalls :
        LET n      == calls[c].num_groups
            ret    == calls[c].ret
            ranked == calls[c].sorted_nums
        IN  /\ Len(ret) = n
            /\ \A g \in 1..Len(ret) :
                  /\ Len(ret[g].top3) = 3
                  /\ Cardinality(NumbersOf(ret[g])) = 3
                  /\ NumbersOf(ret[g]) \subseteq 1..49
                  /\ ret[g].top3[1] < ret[g].top3[2]
                  /\ ret[g].top3[2] < ret[g].top3[3]
            /\ (2 <= n /\ n <= 10) =>
                  /\ \A g \in 1..Len(ret) :
                        NumbersOf(ret[g])
                            = {ranked[3 * (g - 1) + 1], ranked[3 * (g - 1) + 2],
                               ranked[3 * (g - 1) + 3]}
                  /\ \A g1, g2 \in 1..Len(ret) :
                        g1 # g2 => NumbersOf(ret[g1]) \cap NumbersOf(ret[g2]) = {}
            /\ n = 1 => NumbersOf(ret[1]) = {ranked[1], ranked[2], ranked[3]}

\* what every call meets: the same with a single group returned in ranked order
\* instead of ascending order
C20_GroupsOfRankedButOrder ==
    \A c \in GroupCalls :
        LET n      == calls[c].num_groups
            ret    == calls[c].ret
            ranked == calls[c].sorted_nums
        IN  /\ Len(ret) = n
            /\ \A g \in 1..Len(ret) :
                  /\ Len(ret[g].top3) = 3
                  /\ Cardinality(NumbersOf(ret[g])) = 3
                  /\ NumbersOf(ret[g]) \subseteq 1..49
                  /\ n # 1 => /\ ret[g].top3[1] < ret[g].top3[2]
                              /\ ret[g].top3[2] < ret[g].top3[3]
                  /\ n = 1 => ret[g].top3 = SubSeq(ranked, 1, 3)
            /\ (2 <= n /\ n <= 10) =>
                  /\ \A g \in 1..Len(ret) :
                        NumbersOf(ret[g])
                            = {ranked[3 * (g - 1) + 1], ranked[3 * (g - 1) + 2],
                               ranked[3 * (g - 1) + 3]}
                  /\ \A g1, g2 \in 1..Len(ret) :
                        g1 # g2 => NumbersOf(ret[g1]) \cap NumbersOf(ret[g2]) = {}

\* the positions in calls of the applications of the scorers to a candidate
\* that is none of the 12 categories
UnknownCandidateCalls ==
    {i \in 1..Len(calls) :
        /\ calls[i].name = "PredictionEngineUltimate._score_*: unknown candidate"
        /\ calls[i].zodiac \notin ZodiacSet}

\* C22: every dimension scorer called with a candidate that is not one of the
\* 12 categories raises, and never returns a score
C22_UnknownCandidateRaises ==
    \A c \in UnknownCandidateCalls :
        \A d \in DimensionSet : calls[c].ret[d].exc # "none"

\* the draws of the most recent (at most 20) records of h whose special number
\* is on side "big" (> 24) or "small" (<= 24)
DrawsOnSide(h, side) ==
    {i \in 1..Len(h) : i <= 20 /\ ((h[i].tema > 24) <=> (side = "big"))}

\* the numbers of category zodiac on a side
NumbersOnSide(zodiac, side) ==
    {k \in 1..Len(ZODIAC_NUMBERS[zodiac]) :
        (ZODIAC_NUMBERS[zodiac][k] > 24) <=> (side = "big")}

\* the other side
Opposite(side) == IF side = "big" THEN "small" ELSE "big"

\* C25: the big/small scorer returns 80 only when the candidate's own numbers
\* are in majority on the side that is the strict minority among the special
\* numbers of the draws present in the most recent (at most 20) records, and
\* 50 otherwise; draws a shorter window does not hold count on neither side
C25_BigSmallContrarian ==
    \A c \in ScorerCalls :
        LET h      == history
            zodiac == calls[c].zodiac
            rewarded ==
                \E side \in {"big", "small"} :
                    /\ Cardinality(DrawsOnSide(h, side))
                           < Cardinality(DrawsOnSide(h, Opposite(side)))
                    /\ Cardinality(NumbersOnSide(zodiac, side))
                           > Cardinality(NumbersOnSide(zodiac, Opposite(side)))
        IN  calls[c].ret.big_small = Ok(IF rewarded THEN 80 * SCALE ELSE 50 * SCALE)

\* C25 for the windows of 20 draws or more: there the code's small_count is
\* the number of draws on the small side
C25_BigSmallOnFullWindows ==
    \A c \in ScorerCalls :
        LET h      == history
            zodiac == calls[c].zodiac
            rewarded ==
                \E side \in {"big", "small"} :
                    /\ Cardinality(DrawsOnSide(h, side))
                           < Cardinality(DrawsOnSide(h, Opposite(side)))
                    /\ Cardinality(NumbersOnSide(zodiac, side))
                           > Cardinality(NumbersOnSide(zodiac, Opposite(side)))
        IN  Len(h) >= 20 =>
                calls[c].ret.big_small = Ok(IF rewarded THEN 80 * SCALE ELSE 50 * SCALE)

\* C24: when a call of bot.py's predict_3in3 or predict_top2_zodiac has
\* returned, by the empty-history path or by the scoring path, the generator is
\* unseeded: random.seed() without argument was the last seeding
C24_LegacyResetOnEveryReturn ==
    LET n == Len(calls)
    IN  (/\ n > 0
         /\ calls[n].name \in {"PredictionEngine.predict_3in3",
                                "PredictionEngine.predict_top2_zodiac"})
            => rng.seeded = FALSE

\* what holds of those calls: the generator is unseeded after every call that
\* found a history, and left seeded by every call that found none
C24_LegacyResetOnScoringPath ==
    LET n == Len(calls)
    IN  (/\ n > 0
         /\ calls[n].name \in {"PredictionEngine.predict_3in3",
                                "PredictionEngine.predict_top2_zodiac"})
            => (rng.seeded <=> calls[n].history = <<>>)

\* the trials that ranked "rat" first
RatFirstTrials ==
    {i \in 1..Len(calls) :
        /\ calls[i].name = "PredictionEngineUltimate.predict_top2_zodiac: trial"
        /\ calls[i].ret.exc = "none"
        /\ calls[i].ret.zodiac1 = "rat"}

\* C23: over a history of 50 draws (window asked for: 50) in which "rat" never
\* appears and every other category appears 4 or 5 times, predict_top2_zodiac
\* ranks "rat" first in at least 95% of the trials made with different seeds
C23_MissingCategoryRanksFirst ==
    (/\ Len(calls) = MaxTrials
     /\ \A i \in 1..Len(calls) :
           /\ calls[i].name = "PredictionEngineUltimate.predict_top2_zodiac: trial"
           /\ calls[i].dynamic_period = 50)
        => 100 * Cardinality(RatFirstTrials) >= 95 * MaxTrials

\* lower than that: "rat" ranks first in at least half of the trials
C23_MissingCategoryRanksFirstInHalf ==
    (/\ Len(calls) = MaxTrials
     /\ \A i \in 1..Len(calls) :
           calls[i].name = "PredictionEngineUltimate.predict_top2_zodiac: trial")
        => 100 * Cardinality(RatFirstTrials) >= 50 * MaxTrials

-----------------------------------------------------------------------------
\* the calls of PredictionEngine.predict_top5 made so far
Top5Calls == {c \in 1..Len(calls) : calls[c].name = "PredictionEngine.predict_top5"}

\* C30: predict_top5 returns, for every method and every history, exactly 5
\* pairwise distinct numbers in 1..49, with a score entry for each of them
C30_FiveDistinctNumbers ==
    \A c \in Top5Calls :
        LET top5 == calls[c].ret.top5 IN
        /\ Len(top5) = 5
        /\ \A i \in 1..Len(top5) : top5[i] \in 1..49
        /\ \A i, j \in 1..Len(top5) : i # j => top5[i] # top5[j]
        /\ \A i \in 1..Len(top5) : top5[i] \in DOMAIN calls[c].ret.scores

\* C30 without the count: what predict_top5 returns is pairwise distinct, in
\* 1..49 and scored, however many numbers it is
C30_DistinctScoredNumbers ==
    \A c \in Top5Calls :
        LET top5 == calls[c].ret.top5 IN
        /\ Len(top5) <= 5
        /\ \A i \in 1..Len(top5) : top5[i] \in 1..49
        /\ \A i, j \in 1..Len(top5) : i # j => top5[i] # top5[j]
        /\ DOMAIN calls[c].ret.scores = {top5[i] : i \in 1..Len(top5)}

-----------------------------------------------------------------------------
\* the rows a store holds, as a set
RowsOf(store) == {store[i] : i \in 1..Len(store)}

\* C21: a prediction call (predict_top2_zodiac of the ultimate engine,
\* predict_3in3, predict_top5) only reads from the store: the set of draw
\* records and the set of prediction records are the same before and after
\* every step that makes such a call, whatever path the call takes
C21_PredictionsOnlyRead ==
    [][calls' # calls =>
          /\ RowsOf(history') = RowsOf(history)
          /\ RowsOf(records') = RowsOf(records)]_vars

\* C21 witness: two predictions made over a store that holds draws and
\* prediction records, the first of them before the result of period 1031 was
\* saved and the second after
C21_Witness ==
    /\ Len(calls) = 2
    /\ calls[1].name = "PredictionEngine.predict_3in3"
    /\ calls[2].name \in {"PredictionEngineUltimate.predict_top2_zodiac",
                          "PredictionEngine.predict_top5"}
    /\ records # <<>>
    /\ \E row \in RowsOf(calls[2].history) :
          /\ row.expect = <<1, 0, 3, 1>>
          /\ row \notin RowsOf(calls[1].history)

-----------------------------------------------------------------------------
\* the columns of a prediction record that hold what was predicted
Predicted(r) ==
    <<r.expect, r.predict_zodiac1, r.predict_zodiac2, r.predict_numbers1,
      r.predict_numbers2, r.predict_score1, r.predict_score2>>

\* the requests of perform_zodiac_prediction that were resumed
ResumedRequests ==
    {c \in 1..Len(calls) : calls[c].name = "LotteryBot.perform_zodiac_prediction"}

\* C26: zodiac predictions are locked once per period: in every reachable
\* state prediction_records holds at most one row per period id, and every
\* step leaves the predicted candidates, numbers and scores of every row as
\* they were, however the requests of perform_zodiac_prediction interleave
C26_LockedOncePerPeriod ==
    /\ [](\A i, j \in 1..Len(records) : i # j => records[i].expect # records[j].expect)
    /\ [][\A i \in 1..Len(records) :
             \E j \in 1..Len(records') : Predicted(records'[j]) = Predicted(records[i])]_vars

\* C26 witness: two requests for one period passed can_predict before either
\* saved; both were resumed, the first saved its prediction and the second was
\* refused
C26_Witness ==
    \E c, d \in ResumedRequests :
        /\ c < d
        /\ calls[c].expect = calls[d].expect
        /\ calls[c].saved
        /\ ~calls[d].saved
        /\ \E i \in 1..Len(records) : records[i].expect = calls[c].expect

\* the polls of check_new_result that saved a result
SavingPolls == {c \in 1..Len(calls) : calls[c].name = "LotteryBot.check_new_result"}

\* a step of check_new_result that saves the result it fetched
SavingStep ==
    /\ Len(calls') = Len(calls) + 1
    /\ calls'[Len(calls')].name = "LotteryBot.check_new_result"

\* C27: update_prediction_result(expect, tema, zodiac) sets, on the record of
\* the period, is_hit = 1 and hit_rank = 1 if the actual category is the first
\* predicted one, is_hit = 1 and hit_rank = 2 if it is not the first but the
\* second, is_hit = 2 and hit_rank = 0 otherwise, and stores the actual special
\* number and category; it leaves the records of other periods as they are and
\* changes nothing when the period has no record
C27_UpdatePredictionResult ==
    [][SavingStep =>
          LET result == calls'[Len(calls')].result
              actual == normalize_zodiac(result.tema_zodiac)
          IN  /\ Len(records') = Len(records)
              /\ \A i \in 1..Len(records) :
                    IF records[i].expect # result.expect
                    THEN records'[i] = records[i]
                    ELSE /\ Predicted(records'[i]) = Predicted(records[i])
                         /\ records'[i].actual_tema = result.tema
                         /\ records'[i].actual_zodiac = actual
                         /\ actual = records[i].predict_zodiac1
                               => records'[i].is_hit = 1 /\ records'[i].hit_rank = 1
                         /\ actual # records[i].predict_zodiac1
                               /\ actual = records[i].predict_zodiac2
                               => records'[i].is_hit = 1 /\ records'[i].hit_rank = 2
                         /\ actual # records[i].predict_zodiac1
                               /\ actual # records[i].predict_zodiac2
                               => records'[i].is_hit = 2 /\ records'[i].hit_rank = 0]_vars

\* C27 witness: the draw of period 1005 was processed last; the record of 1005
\* carries its outcome and the record of 1004, a hit of the second candidate
\* (the API spelt it the traditional way), is as it was reconciled
C27_Witness ==
    /\ calls # <<>>
    /\ calls[Len(calls)].name = "LotteryBot.check_new_result"
    /\ calls[Len(calls)].result.expect = <<1, 0, 0, 5>>
    /\ \E i, j \in 1..Len(records) :
          /\ records[i].expect = <<1, 0, 0, 5>>
          /\ records[i].is_hit \in {1, 2}
          /\ records[i].actual_tema = calls[Len(calls)].result.tema
          /\ records[j].expect = <<1, 0, 0, 4>>
          /\ records[j].predict_zodiac2 = "dragon"
          /\ records[j].actual_zodiac = "dragon"
          /\ records[j].is_hit = 1
          /\ records[j].hit_rank = 2

\* C28: every prediction is reconciled: once check_new_result has processed
\* the draw of a period (its row is in lottery_history), a prediction record
\* of that period, made before or after, carries the outcome: actual_tema is
\* set and is_hit is 1 or 2
C28_EveryPredictionReconciled ==
    \A i \in 1..Len(records) :
        (\E k \in 1..Len(history) : history[k].expect = records[i].expect)
            => records[i].actual_tema # 0 /\ records[i].is_hit \in {1, 2}

\* C28 for the records that exist when the draw is processed: the step of
\* check_new_result that saves the draw of a period reconciles the record of
\* that period
C28_ReconciledWhenDrawn ==
    [][SavingStep =>
          \A i \in 1..Len(records') :
              records'[i].expect = calls'[Len(calls')].result.expect
                  => records'[i].actual_tema # 0 /\ records'[i].is_hit \in {1, 2}]_vars

\* C29: check_new_result saves a result and notifies the users only when the
\* period of the result is not in lottery_history yet, and writes the draw of
\* a period (so notifies of it) at most once over any sequence of polls, also
\* when the API returns a period older than the latest stored one
C29_SavedAndNotifiedOnce ==
    [][SavingStep =>
          LET expect == calls'[Len(calls')].result.expect
          IN  /\ \A k \in 1..Len(history) : history[k].expect # expect
              /\ \A c \in SavingPolls : calls[c].result.expect # expect]_vars

\* C29 for the results that are not older than the latest stored one: what
\* check_new_result saves and notifies is newer than every row of
\* lottery_history, or else older than the latest row
C29_NewOrOlderThanLatest ==
    [][SavingStep =>
          LET expect == calls'[Len(calls')].result.expect
          IN  \/ \A k \in 1..Len(history) : TextLess(history[k].expect, expect)
              \/ /\ history # <<>>
                 /\ TextLess(expect, history[1].expect)]_vars

====
